---- MODULE Spec2Model ----
(***************************************************************************)
(* The control loop of browser_use.agent.service.Agent: run(), step() and  *)
(* its phases, multi_act(), the pause / resume / stop signals, and the     *)
(* history it builds (browser_use.agent.views).                            *)
(*                                                                         *)
(* One action of the model is one stretch of the coroutine between two     *)
(* suspension points (awaits).  The external signals and the step timeout  *)
(* of asyncio.wait_for interleave with these stretches.                    *)
(*                                                                         *)
(* Seven specifications: Spec is the run loop; LiveSpec is Spec with weak   *)
(* fairness of the coroutine's steps; DecideSpec is one call of             *)
(* _get_model_output_with_retry with its inputs drawn at the start;         *)
(* BatchSpec is one call of multi_act against element maps; ReplaySpec is   *)
(* one call of rerun_history; RectSpec is one RectUnionPure                 *)
(* (browser_use.dom.serializer.paint_order) receiving add calls; FileSpec   *)
(* is one history file being saved and loaded.                              *)
(*                                                                         *)
(* Optional values: Python's None is the string "None" for scalars; for    *)
(* state.last_result (a list or None, only ever tested for truthiness) it  *)
(* is the empty sequence; for model outputs it is NoOutput.  In FileSpec,  *)
(* where None must be told from a default, it is Nothing beside Some(v).   *)
(***************************************************************************)
EXTENDS Integers, Sequences, FiniteSets, TLC

\* ------------------------------------------------------------------ bounds
MaxSteps == 2
MaxFailures == 1
MaxSignals == 2
MaxTimeouts == 1
MaxMessages == 2

VARIABLES
    max_steps,              \* run(max_steps)
    settings,               \* AgentSettings: max_failures, final_response_after_failure,
                            \* max_actions_per_step
    initial_actions,        \* Agent.initial_actions (<<>> when there are none)
    state,                  \* AgentState
    history,                \* AgentHistoryList.history
    pause_event,            \* Agent._external_pause_event is set
    AgentOutput,            \* the output schema handed to the oracle: "full" or "done"
    context_messages,       \* context messages added to the prompt of this step
    agent_run_error,        \* run()'s local agent_run_error
    pc,                     \* position of the run() coroutine
    step,                   \* loop variable of run()
    browser_state_summary,  \* local of step()
    i,                      \* multi_act: loop index
    results,                \* multi_act: local results
    signals,                \* number of pause / resume / stop calls so far
    timeouts,               \* number of step timeouts so far
    cur,                    \* observation: the invocation of step() in progress (or the last one)
    clean_steps,            \* observation: steps 1..clean_steps all ran clean and non-terminal
    exchange,               \* one call of _get_model_output_with_retry, seen on its own:
                            \* its position, input_messages, the oracle calls and the result
    batch,                  \* one call of multi_act, seen on its own, against element maps
    replay,                 \* one call of rerun_history
    rect_union,             \* one RectUnionPure and the last add made to it
    saved                   \* one history file: what is saved, the document, what is loaded

vars == <<max_steps, settings, initial_actions, state, history, pause_event,
          AgentOutput, context_messages, agent_run_error, pc, step,
          browser_state_summary, i, results, signals, timeouts, cur, clean_steps,
          exchange, batch, replay, rect_union, saved>>

None == "None"

\* ------------------------------------------------------------ views.py
\* ActionResult(...) with the fields the control loop reads.
ActionResult(is_done, success, error, extracted_content) ==
    [is_done |-> is_done, success |-> success, error |-> error,
     extracted_content |-> extracted_content]

ErrorResult(msg) == ActionResult(FALSE, None, msg, None)

\* ActionResult.validate_success_requires_done, run by every construction:
\* TRUE when the result is accepted, FALSE when ValueError is raised
validate_success_requires_done_accepts_all(r) == TRUE

validate_success_requires_done(r) == ~(r.success = "true" /\ r.is_done # TRUE)

NoOutput == [none |-> TRUE, action |-> <<>>]

ModelOutput(actions) == [none |-> FALSE, action |-> actions]

\* AgentHistory(model_output, result, state, metadata); metadata is the step number
AgentHistory(model_output, result, step_number) ==
    [model_output |-> model_output, result |-> result, metadata |-> step_number]

\* AgentStepInfo.is_last_step
is_last_step(step_number, maxsteps) == step_number >= maxsteps - 1

\* AgentHistoryList.is_done
is_done_checks_success(h) ==
    IF Len(h) > 0 /\ Len(h[Len(h)].result) > 0
    THEN h[Len(h)].result[Len(h[Len(h)].result)].success = "true"
    ELSE FALSE

is_done(h) ==
    IF Len(h) > 0 /\ Len(h[Len(h)].result) > 0
    THEN h[Len(h)].result[Len(h[Len(h)].result)].is_done = TRUE
    ELSE FALSE

\* AgentHistoryList.is_successful ("None" when not done)
is_successful(h) ==
    IF Len(h) > 0 /\ Len(h[Len(h)].result) > 0
    THEN LET last_result == h[Len(h)].result[Len(h[Len(h)].result)]
         IN IF last_result.is_done = TRUE THEN last_result.success ELSE None
    ELSE None

\* ------------------------------------------------------------ actions
\* The action kinds of the model: "click" addresses an element by index,
\* "navigate" does not, "done_true" / "done_false" are the done action with
\* its success parameter, "empty" is an action model with no field set
\* (model_dump() == {}).
IsDoneAction(a) == a \in {"done_true", "done_false"}

IsEmptyAction(a) == a = "empty"

HasIndex(a) == a = "click"

\* What the oracle can answer under a schema: the full schema admits every
\* action, the done schema only the done action.  <<>> is an empty action list.
Responses(schema) ==
    IF schema = "done"
    THEN {<<>>, <<"empty">>, <<"done_true">>, <<"done_false">>}
    ELSE {<<>>, <<"empty">>, <<"click">>, <<"click", "click">>, <<"done_true">>, <<"done_false">>}

InitialActionLists == {<<>>, <<"navigate">>}

\* Largest value of settings.max_actions_per_step
MaxActionsPerStep == 2

\* ------------------------------------------------------------ service.py
BoolToInt(b) == IF b THEN 1 ELSE 0

Truthy(result) == Len(result) > 0

\* run(): the failure-budget test at the top of the loop
FailureBudgetExceeded_strict(s, cfg) ==
    s.consecutive_failures > cfg.max_failures + BoolToInt(cfg.final_response_after_failure)

FailureBudgetExceeded(s, cfg) ==
    s.consecutive_failures >= cfg.max_failures + BoolToInt(cfg.final_response_after_failure)

\* _raise_if_stopped_or_paused raises InterruptedError (the optional
\* register_external_agent_status_raise_error_callback is not registered)
StoppedOrPaused_only_paused(s) == s.paused

StoppedOrPaused(s) == s.stopped \/ s.paused

\* _force_done_after_last_step / _force_done_after_failure: the directive
\* messages they add, and whether the schema becomes DoneAgentOutput
ForceDoneAfterLastStep(step_number, maxsteps) == is_last_step(step_number, maxsteps)

ForceDoneAfterFailure_never(s, cfg) == FALSE

ForceDoneAfterFailure(s, cfg) ==
    s.consecutive_failures >= cfg.max_failures /\ cfg.final_response_after_failure

ForcedMessages(s, cfg, step_number, maxsteps) ==
    (IF ForceDoneAfterLastStep(step_number, maxsteps) THEN {"last_step"} ELSE {})
    \cup (IF ForceDoneAfterFailure(s, cfg) THEN {"force_done_after_failure"} ELSE {})

ForcedSchema(s, cfg, step_number, maxsteps) ==
    IF ForceDoneAfterLastStep(step_number, maxsteps) \/ ForceDoneAfterFailure(s, cfg)
    THEN "done" ELSE "full"

\* get_model_output: the parsed answer, cut to max_actions_per_step
get_model_output_uncut(parsed, cfg) == parsed

get_model_output(parsed, cfg) ==
    IF Len(parsed) > cfg.max_actions_per_step
    THEN SubSeq(parsed, 1, cfg.max_actions_per_step)
    ELSE parsed

\* _get_model_output_with_retry: the test for an empty decision (no action, or
\* only actions that dump to {})
EmptyDecision_only_no_action(action) == action = <<>>

EmptyDecision(action) ==
    action = <<>> \/ \A k \in 1..Len(action) : IsEmptyAction(action[k])

\* _get_model_output_with_retry: the noop action inserted after an empty retry
SafeNoop_nothing == <<>>

SafeNoop == <<"done_false">>

\* _get_model_output_with_retry: first is the oracle's answer, second its answer
\* to the retry (used only when the first is empty)
get_model_output_with_retry(first, second, cfg) ==
    IF EmptyDecision(get_model_output(first, cfg))
    THEN IF EmptyDecision(get_model_output(second, cfg))
         THEN SafeNoop
         ELSE get_model_output(second, cfg)
    ELSE get_model_output(first, cfg)

\* ---- URL shortening (service.py, "region - URL replacement")
\* A URL is its part up to the path (base) and the length of what follows the
\* path (after: query and fragment).  short_of is 0 for a URL as written; in a
\* shortened URL it stands for the hash of the after-path it was made from.
UrlShorteningLimit == 25

\* "..." and the 7 hex digits of the hash
ShortenedSuffixLen == 10

Url(base, after) == [base |-> base, after |-> after, short_of |-> 0]

\* _replace_urls_in_text.replace_url
replace_url(u) ==
    IF u.after <= UrlShorteningLimit THEN u
    ELSE LET shortened == [base |-> u.base,
                           after |-> UrlShorteningLimit + ShortenedSuffixLen,
                           short_of |-> u.after]
         IN IF shortened.after < u.after THEN shortened ELSE u

\* _process_messsages_and_replace_long_urls_shorter_ones: the messages (each the
\* text of one URL) as it leaves them, edited in place, and the dict it returns
\* (pairs <<shortened, original>>)
process_messages(messages) ==
    [messages |-> [k \in DOMAIN messages |-> replace_url(messages[k])],
     urls_replaced |-> {<<replace_url(messages[k]), messages[k]>> :
                           k \in {j \in DOMAIN messages : replace_url(messages[j]) # messages[j]}}]

\* _replace_shortened_urls_in_string
replace_shortened_urls_in_string(u, url_replacements) ==
    IF \E p \in url_replacements : p[1] = u
    THEN (CHOOSE p \in url_replacements : p[1] = u)[2]
    ELSE u

\* get_model_output: the URLs of the parsed answer after
\* `if urls_replaced: _recursive_process_all_strings_inside_pydantic_model(...)`
restore_urls(urls, urls_replaced) ==
    IF urls_replaced # {}
    THEN {replace_shortened_urls_in_string(u, urls_replaced) : u \in urls}
    ELSE urls

\* _handle_step_error
handle_step_error(s, error) ==
    [s EXCEPT !.consecutive_failures = @ + 1,
              !.last_result = <<ErrorResult(IF error = "InterruptedError"
                                            THEN "The agent was interrupted mid-step"
                                            ELSE "error")>>]

\* _post_process: the consecutive-failure counter
post_process(s) ==
    IF Truthy(s.last_result) /\ Len(s.last_result) = 1
       /\ s.last_result[Len(s.last_result)].error # None
    THEN [s EXCEPT !.consecutive_failures = @ + 1]
    ELSE [s EXCEPT !.consecutive_failures = 0]

\* _make_history_item followed by AgentHistoryList.add_item
make_history_item_replaces_last(h, model_output, result, step_number) ==
    IF Len(h) = 0 THEN <<AgentHistory(model_output, result, step_number)>>
    ELSE [h EXCEPT ![Len(h)] = AgentHistory(model_output, result, step_number)]

make_history_item(h, model_output, result, step_number) ==
    Append(h, AgentHistory(model_output, result, step_number))

\* _finalize: the state and the history it leaves
finalize_state_skips_counter(s) == s

finalize_state(s) ==
    IF ~Truthy(s.last_result) THEN s ELSE [s EXCEPT !.n_steps = @ + 1]

finalize_history_keeps_empty(s, h, bss) ==
    IF bss # None
    THEN make_history_item(h, s.last_model_output, s.last_result, s.n_steps)
    ELSE h

finalize_history(s, h, bss) ==
    IF ~Truthy(s.last_result) THEN h
    ELSE IF bss # None
         THEN make_history_item(h, s.last_model_output, s.last_result, s.n_steps)
         ELSE h

\* tools.act: the result of one action; outcome is what the environment did
act(action, outcome) ==
    IF outcome = "error" THEN ErrorResult("action failed")
    ELSE IF outcome = "invalid" THEN ActionResult(FALSE, "true", None, None)
    ELSE IF action = "done_true" THEN ActionResult(TRUE, "true", None, "done")
    ELSE IF action = "done_false" THEN ActionResult(TRUE, "false", None, "done")
    ELSE ActionResult(FALSE, None, None, None)

\* multi_act: a done action is allowed only as a single action
DoneNotAlone_never(actions, idx) == FALSE

DoneNotAlone(actions, idx) == idx > 0 /\ IsDoneAction(actions[idx + 1])

\* multi_act: the break after an action's result is appended
BatchStops_only_last(r, idx, total_actions) == idx = total_actions - 1

BatchStops(r, idx, total_actions) ==
    r.is_done \/ r.error # None \/ idx = total_actions - 1

\* multi_act: one iteration of its loop over actions, at index idx (from 0):
\* how it ends, the results so far, and whether it invoked tools.act.
\* env is what the re-observation before an index-based action shows ("same",
\* "changed": another element at the action's index, "new": new elements),
\* outcome what tools.act does ("ok", "error", "raise", and "invalid": the
\* action builds ActionResult(success=True) without is_done, and the
\* constructor's ValueError leaves tools.act as "raise" does).
multi_act_iteration(actions, idx, res, check_for_new_elements, env, outcome, s) ==
    LET action == actions[idx + 1]
        synthetic(msg) == ActionResult(FALSE, None, None, msg)
    IN IF DoneNotAlone(actions, idx)
       THEN [status |-> "return", results |-> res, invoked |-> FALSE]
       ELSE IF HasIndex(action) /\ idx # 0 /\ env = "changed"
       THEN [status |-> "return", invoked |-> FALSE,
             results |-> Append(res, synthetic("Page changed after action"))]
       ELSE IF HasIndex(action) /\ idx # 0 /\ env = "new" /\ check_for_new_elements
       THEN [status |-> "return", invoked |-> FALSE,
             results |-> Append(res, synthetic("Something new appeared"))]
       ELSE IF StoppedOrPaused(s)
       THEN [status |-> "InterruptedError", results |-> res, invoked |-> FALSE]
       ELSE IF outcome = "raise" \/ ~validate_success_requires_done(act(action, outcome))
       THEN [status |-> "Exception", results |-> res, invoked |-> TRUE]
       ELSE LET r == act(action, outcome)
            IN IF BatchStops(r, idx, Len(actions))
               THEN [status |-> "return", results |-> Append(res, r), invoked |-> TRUE]
               ELSE [status |-> "continue", results |-> Append(res, r), invoked |-> TRUE]

\* ------------------------------------------------------------ the state machine
NoMetadata == -1

RunErrorFailures == "Stopped due to consecutive failures"

RunErrorStopped == "Agent stopped programmatically"

RunErrorMaxSteps == "Failed to complete task in maximum steps"

StepTimedOut == "Step timed out"

StepPcs == {"prepare", "decide", "act", "post_process", "finalize"}

\* What is observed of one invocation of step(): the counters as it began, the
\* exception its phases raised, whether wait_for timed it out, what multi_act
\* returned (or had collected when it raised), the phase that raised, and what
\* the oracle was asked with
NoStep ==
    [started |-> FALSE, step_number |-> 0, n0 |-> 0, cf0 |-> 0, h0 |-> 0, raised |-> None,
     raised_in |-> None,
     timed_out |-> FALSE, acted |-> FALSE, yielded |-> <<>>,
     oracle_calls |-> 0, oracle_schema |-> None, oracle_messages |-> {}]

\* The observed step ran all its phases and every action it executed succeeded
Clean(c) ==
    /\ c.started /\ c.raised = None /\ ~c.timed_out /\ c.acted
    /\ \A k \in 1..Len(c.yielded) : c.yielded[k].error = None

CleanNonTerminal(c) ==
    Clean(c) /\ \A k \in 1..Len(c.yielded) : ~c.yielded[k].is_done

\* No call of _get_model_output_with_retry is being looked at.  Of a call:
\* where it stands (dpc), input_messages, the number of oracle calls, the call
\* whose answer failed validation (0: none), the valid answers and the result.
NoDecision == [action |-> <<>>, urls |-> {}]

NoExchange ==
    [dpc |-> "idle", input_messages |-> <<>>, calls |-> 0, failed |-> 0,
     first |-> NoDecision, second |-> NoDecision, model_output |-> NoDecision]

\* Element maps (dom_state.selector_map): which element, known by its hash,
\* stands at each index; NoElement where selector_map.get(index) is None.
\* An action that names no element has get_index() None: NoIndex.
NoElement == 0

NoIndex == 0

Indices == 1..2

Hashes == 1..2

SelectorMaps == [Indices -> Hashes \cup {NoElement}]

EmptySelectorMap == [k \in Indices |-> NoElement]

\* No call of multi_act is being looked at.  Of a call: where it stands (bpc),
\* the actions (kind and index), the snapshot cached before the batch, the
\* element map of the page now, the loop index and the results; observed:
\* the indices of the actions handed to tools.act, the number of iterations
\* begun, whether the first action left an element the snapshot does not hold
\* and left the second action's target as it was, and the iteration that last
\* re-observed the page (-1: none) with whether it read another target.
NoBatch ==
    [bpc |-> "idle", actions |-> <<>>, check_for_new_elements |-> TRUE,
     cached_selector_map |-> EmptySelectorMap, selector_map |-> EmptySelectorMap,
     i |-> 0, results |-> <<>>, invoked |-> <<>>, iterations |-> 0,
     new_after_first |-> FALSE, target_after_first |-> FALSE,
     observed_at |-> -1, target_changed |-> FALSE]

\* No call of rerun_history is being looked at.  Of a call: where it stands
\* (rpc), the history handed in, the page's element map, max_retries,
\* skip_failures, the item being replayed (from 1), retry_count and results;
\* observed: the history as it was handed in, the item last attempted (0:
\* none), the number of calls of _execute_history_step for it, the length of
\* results when it began, whether the last call raised and the actions it
\* handed to multi_act (<<>>: none).
NoReplay ==
    [rpc |-> "idle", history |-> <<>>, selector_map |-> EmptySelectorMap,
     max_retries |-> 0, skip_failures |-> TRUE, i |-> 1, retry_count |-> 0,
     results |-> <<>>, original |-> <<>>, attempted |-> 0, attempts |-> 0,
     len0 |-> 0, raised |-> FALSE, updated_actions |-> <<>>]

\* No RectUnionPure is being looked at.  Of one: _rects, the number of add
\* calls, the rectangle of the last call, what it returned, whether that
\* rectangle was covered before the call and whether _rects stayed as it was.
NoRect == [x1 |-> 0, y1 |-> 0, x2 |-> 0, y2 |-> 0]

NoRectUnion ==
    [rects |-> <<>>, adds |-> 0, r |-> NoRect, grew |-> FALSE, covered |-> FALSE,
     same |-> TRUE]

\* No history file is being looked at.  Of one: where the save / load stands
\* (fpc), whether it began as an AgentHistoryList or as a document on disk
\* (origin), AgentHistoryList.history, the JSON document, the data after
\* _migrate_legacy_format and the history load_from_file returned.
NoSaved ==
    [fpc |-> "idle", origin |-> "none", history |-> <<>>,
     document |-> [history |-> <<>>], migrated |-> [history |-> <<>>],
     loaded |-> <<>>]

\* AgentState() as constructed, Agent.__init__ (the pause event starts set)
Init ==
    /\ max_steps \in 1..MaxSteps
    /\ settings \in [max_failures : 0..MaxFailures,
                     final_response_after_failure : BOOLEAN,
                     max_actions_per_step : {MaxActionsPerStep}]
    /\ initial_actions \in InitialActionLists
    /\ state = [n_steps |-> 1, consecutive_failures |-> 0, last_result |-> <<>>,
                last_model_output |-> NoOutput, paused |-> FALSE, stopped |-> FALSE]
    /\ history = <<>>
    /\ pause_event = TRUE
    /\ AgentOutput = "full"
    /\ context_messages = {}
    /\ agent_run_error = None
    /\ pc = "start"
    /\ step = 0
    /\ browser_state_summary = None
    /\ i = 0
    /\ results = <<>>
    /\ signals = 0
    /\ timeouts = 0
    /\ cur = NoStep
    /\ clean_steps = 0
    /\ exchange = NoExchange
    /\ batch = NoBatch
    /\ replay = NoReplay
    /\ rect_union = NoRectUnion
    /\ saved = NoSaved

\* A signal is delivered while run() is suspended.  Between the last read of the
\* flags in a step and the top of the next iteration nothing reads them, so a
\* signal arriving there is delivered at the top of the next iteration.
Running ==
    pc \in {"initial_actions", "loop_top", "pause_wait", "pause_woken",
            "on_step_start", "prepare", "decide", "act"}

\* asyncio.Event.set() wakes the coroutine blocked in wait()
Woken_stays_blocked == pc

Woken == IF pc = "pause_wait" THEN "pause_woken" ELSE pc

\* Agent.pause.  The three signals are left out where they would change
\* nothing (pause of a paused agent whose event is clear, resume of an agent that
\* is not paused, stop of a stopped agent): such a call is a stuttering step.
Pause ==
    /\ Running /\ signals < MaxSignals
    /\ ~(state.paused /\ ~pause_event)
    /\ signals' = signals + 1
    /\ state' = [state EXCEPT !.paused = TRUE]
    /\ pause_event' = FALSE
    /\ UNCHANGED <<exchange, batch, replay, rect_union, saved, clean_steps, max_steps, settings, initial_actions, history, AgentOutput,
                   context_messages, agent_run_error, pc, step,
                   browser_state_summary, i, results, timeouts, cur>>

\* Agent.resume
Resume ==
    /\ Running /\ signals < MaxSignals
    /\ state.paused \/ ~pause_event
    /\ signals' = signals + 1
    /\ state' = [state EXCEPT !.paused = FALSE]
    /\ pause_event' = TRUE
    /\ pc' = Woken
    /\ UNCHANGED <<exchange, batch, replay, rect_union, saved, clean_steps, max_steps, settings, initial_actions, history, AgentOutput,
                   context_messages, agent_run_error, step,
                   browser_state_summary, i, results, timeouts, cur>>

\* Agent.stop
Stop ==
    /\ Running /\ signals < MaxSignals
    /\ ~state.stopped \/ ~pause_event
    /\ signals' = signals + 1
    /\ state' = [state EXCEPT !.stopped = TRUE]
    /\ pause_event' = TRUE
    /\ pc' = Woken
    /\ UNCHANGED <<exchange, batch, replay, rect_union, saved, clean_steps, max_steps, settings, initial_actions, history, AgentOutput,
                   context_messages, agent_run_error, step,
                   browser_state_summary, i, results, timeouts, cur>>

\* _execute_initial_actions, up to the call of multi_act
ExecuteInitialActions ==
    /\ pc = "start"
    /\ pc' = IF initial_actions # <<>> THEN "initial_actions" ELSE "loop_top"
    /\ i' = 0
    /\ results' = <<>>
    /\ UNCHANGED <<exchange, batch, replay, rect_union, saved, clean_steps, max_steps, settings, initial_actions, state, history, pause_event,
                   AgentOutput, context_messages, agent_run_error, step,
                   browser_state_summary, signals, timeouts, cur>>

\* run(): the two tests at the top of an iteration, after the pause test
ChecksPc ==
    IF FailureBudgetExceeded(state, settings) \/ state.stopped
    THEN "returned" ELSE "on_step_start"

ChecksError_stop_first ==
    IF state.stopped THEN RunErrorStopped
    ELSE IF FailureBudgetExceeded(state, settings) THEN RunErrorFailures
    ELSE agent_run_error

ChecksError ==
    IF FailureBudgetExceeded(state, settings) THEN RunErrorFailures
    ELSE IF state.stopped THEN RunErrorStopped
    ELSE agent_run_error

\* run(): the top of an iteration.  A paused agent waits for the pause event
\* (wait() returns at once when the event is set).
LoopTop ==
    /\ pc = "loop_top"
    /\ IF state.paused /\ ~pause_event
       THEN pc' = "pause_wait" /\ UNCHANGED agent_run_error
       ELSE pc' = ChecksPc /\ agent_run_error' = ChecksError
    /\ UNCHANGED <<exchange, batch, replay, rect_union, saved, clean_steps, max_steps, settings, initial_actions, state, history, pause_event,
                   AgentOutput, context_messages, step, browser_state_summary,
                   i, results, signals, timeouts, cur>>

\* run(): the pause wait has returned
PauseWoken ==
    /\ pc = "pause_woken"
    /\ pc' = ChecksPc
    /\ agent_run_error' = ChecksError
    /\ UNCHANGED <<exchange, batch, replay, rect_union, saved, clean_steps, max_steps, settings, initial_actions, state, history, pause_event,
                   AgentOutput, context_messages, step, browser_state_summary,
                   i, results, signals, timeouts, cur>>

\* run(): on_step_start, then step() is entered under wait_for
OnStepStart ==
    /\ pc = "on_step_start"
    /\ pc' = "prepare"
    /\ browser_state_summary' = None
    /\ cur' = [NoStep EXCEPT !.started = TRUE,
                              !.step_number = step,
                              !.n0 = state.n_steps,
                              !.cf0 = state.consecutive_failures,
                              !.h0 = Len(history)]
    /\ UNCHANGED <<exchange, batch, replay, rect_union, saved, clean_steps, max_steps, settings, initial_actions, state, history, pause_event,
                   AgentOutput, context_messages, agent_run_error, step,
                   i, results, signals, timeouts>>

Raised(e) == [cur EXCEPT !.raised = e, !.raised_in = pc]

\* _prepare_context: r is what get_browser_state_summary does
Prepare ==
    /\ pc = "prepare"
    /\ \E r \in {"ok", "raise"} :
         IF r = "raise"
         THEN /\ state' = handle_step_error(state, "Exception")
              /\ cur' = Raised("Exception")
              /\ pc' = "finalize"
              /\ UNCHANGED <<browser_state_summary, AgentOutput, context_messages>>
         ELSE /\ browser_state_summary' = "summary"
              /\ IF StoppedOrPaused(state)
                 THEN /\ state' = handle_step_error(state, "InterruptedError")
                      /\ cur' = Raised("InterruptedError")
                      /\ pc' = "finalize"
                      /\ UNCHANGED <<AgentOutput, context_messages>>
                 ELSE /\ AgentOutput' = ForcedSchema(state, settings, step, max_steps)
                      /\ context_messages' = ForcedMessages(state, settings, step, max_steps)
                      /\ pc' = "decide"
                      /\ UNCHANGED <<state, cur>>
    /\ UNCHANGED <<exchange, batch, replay, rect_union, saved, clean_steps, max_steps, settings, initial_actions, history, pause_event,
                   agent_run_error, step, i, results, signals, timeouts>>

\* _get_next_action: the oracle is asked (first, and second on a retry);
\* failing = 1 or 2 when that call raises (validation error, LLM timeout)
Decide ==
    /\ pc = "decide"
    /\ \E first \in Responses(AgentOutput), second \in Responses(AgentOutput),
          failing \in 0..2 :
         LET retried == EmptyDecision(get_model_output(first, settings))
             calls == IF failing = 1 THEN 1 ELSE IF retried THEN 2 ELSE 1
             asked == [cur EXCEPT !.oracle_calls = calls,
                                  !.oracle_schema = AgentOutput,
                                  !.oracle_messages = context_messages]
             output == ModelOutput(get_model_output_with_retry(first, second, settings))
         IN /\ (failing = 2 => retried)
            /\ IF failing # 0
               THEN /\ state' = handle_step_error(state, "Exception")
                    /\ cur' = [asked EXCEPT !.raised = "Exception", !.raised_in = pc]
                    /\ pc' = "finalize"
               ELSE IF StoppedOrPaused(state)
               THEN /\ state' = handle_step_error(
                                  [state EXCEPT !.last_model_output = output],
                                  "InterruptedError")
                    /\ cur' = [asked EXCEPT !.raised = "InterruptedError", !.raised_in = pc]
                    /\ pc' = "finalize"
               ELSE /\ state' = [state EXCEPT !.last_model_output = output]
                    /\ cur' = asked
                    /\ pc' = "act"
    /\ i' = 0
    /\ results' = <<>>
    /\ UNCHANGED <<exchange, batch, replay, rect_union, saved, clean_steps, max_steps, settings, initial_actions, history, pause_event,
                   AgentOutput, context_messages, agent_run_error, step,
                   browser_state_summary, signals, timeouts>>

\* multi_act, one iteration; called by _execute_actions (pc = "act") and by
\* _execute_initial_actions (pc = "initial_actions", check_for_new_elements=False)
MultiAct ==
    /\ pc \in {"act", "initial_actions"}
    /\ \E env \in {"same", "changed", "new"},
          outcome \in {"ok", "error", "raise", "invalid"} :
         LET actions == IF pc = "act" THEN state.last_model_output.action
                        ELSE initial_actions
             out == multi_act_iteration(actions, i, results, pc = "act", env, outcome, state)
         IN IF out.status = "continue"
            THEN /\ i' = i + 1
                 /\ results' = out.results
                 /\ UNCHANGED <<state, history, agent_run_error, pc, cur>>
            ELSE /\ i' = 0
                 /\ results' = <<>>
                 /\ IF pc = "act"
                    THEN /\ UNCHANGED <<history, agent_run_error>>
                         /\ IF out.status = "return"
                            THEN /\ state' = [state EXCEPT !.last_result = out.results]
                                 /\ cur' = [cur EXCEPT !.acted = TRUE, !.yielded = out.results]
                                 /\ pc' = "post_process"
                            ELSE /\ state' = handle_step_error(state, out.status)
                                 /\ cur' = [Raised(out.status) EXCEPT !.yielded = out.results]
                                 /\ pc' = "finalize"
                    ELSE /\ UNCHANGED cur
                         /\ IF out.status = "return"
                            THEN /\ state' = [state EXCEPT !.last_result = out.results]
                                 /\ history' = Append(history,
                                        AgentHistory(ModelOutput(initial_actions), out.results, 0))
                                 /\ pc' = "loop_top"
                                 /\ UNCHANGED agent_run_error
                            ELSE /\ agent_run_error' = out.status
                                 /\ pc' = "raised"
                                 /\ UNCHANGED <<state, history>>
    /\ UNCHANGED <<exchange, batch, replay, rect_union, saved, clean_steps, max_steps, settings, initial_actions, pause_event, AgentOutput,
                   context_messages, step, browser_state_summary, signals, timeouts>>

\* _post_process
PostProcess ==
    /\ pc = "post_process"
    /\ state' = post_process(state)
    /\ pc' = "finalize"
    /\ UNCHANGED <<exchange, batch, replay, rect_union, saved, clean_steps, max_steps, settings, initial_actions, history, pause_event,
                   AgentOutput, context_messages, agent_run_error, step,
                   browser_state_summary, i, results, signals, timeouts, cur>>

\* _finalize is suspended (storing the screenshot) only when it builds a history item
FinalizeSuspended ==
    pc = "finalize" /\ Truthy(state.last_result) /\ browser_state_summary # None

\* _finalize, run to its end, or left by the exception of store_screenshot:
\* raised in the finally clause of step(), it passes wait_for and the
\* `except TimeoutError` of run() and reaches run()'s `except Exception`,
\* which records it and raises it again
Finalize ==
    /\ pc = "finalize"
    /\ \E r \in {"ok", "raise"} :
         /\ r = "raise" => FinalizeSuspended
         /\ IF r = "raise"
            THEN /\ pc' = "raised"
                 /\ agent_run_error' = "Exception"
                 /\ UNCHANGED <<state, history>>
            ELSE /\ state' = finalize_state(state)
                 /\ history' = finalize_history(state, history, browser_state_summary)
                 /\ pc' = "on_step_end"
                 /\ UNCHANGED agent_run_error
    /\ UNCHANGED <<exchange, batch, replay, rect_union, saved, clean_steps, max_steps, settings, initial_actions, pause_event,
                   AgentOutput, context_messages, step,
                   browser_state_summary, i, results, signals, timeouts, cur>>

\* asyncio.wait_for cancels step() at the await it is suspended in: the
\* CancelledError passes `except Exception`, the finally clause runs _finalize,
\* and run() handles the TimeoutError.  Cancelled inside _finalize, the rest of
\* _finalize is skipped.  In _prepare_context the step is suspended either
\* before or after browser_state_summary is assigned.  In _get_next_action it
\* is suspended in the oracle call, before last_model_output is assigned (a
\* timeout after the assignment leaves the state of a timeout at the first action).
StepTimeout ==
    /\ pc \in StepPcs
    /\ pc = "finalize" => FinalizeSuspended
    /\ timeouts < MaxTimeouts
    /\ timeouts' = timeouts + 1
    /\ \E bss \in {None, "summary"} :
         /\ pc # "prepare" => bss = browser_state_summary
         /\ LET s1 == IF pc = "finalize" THEN state ELSE finalize_state(state)
                h1 == IF pc = "finalize" THEN history
                      ELSE finalize_history(state, history, bss)
            IN /\ state' = [s1 EXCEPT !.consecutive_failures = @ + 1,
                                      !.last_result = <<ErrorResult(StepTimedOut)>>]
               /\ history' = h1
         /\ browser_state_summary' = bss
    /\ cur' = [cur EXCEPT !.timed_out = TRUE]
    /\ pc' = "on_step_end"
    /\ i' = 0
    /\ results' = <<>>
    /\ UNCHANGED <<exchange, batch, replay, rect_union, saved, clean_steps, max_steps, settings, initial_actions, pause_event, AgentOutput,
                   context_messages, agent_run_error, step, signals>>

\* run(): the else clause of the for loop runs when the last iteration ends
\* without the break of the is_done test
LoopExhausted_ignores_break(h, stp, maxsteps) == stp + 1 >= maxsteps

LoopExhausted_one_more(h, stp, maxsteps) == ~is_done(h) /\ stp >= maxsteps

LoopExhausted(h, stp, maxsteps) == ~is_done(h) /\ stp + 1 >= maxsteps

\* run(): on_step_end, the is_done test, and the end of the for loop
OnStepEnd ==
    /\ pc = "on_step_end"
    /\ IF LoopExhausted(history, step, max_steps)
       THEN /\ pc' = "returned"
            /\ agent_run_error' = RunErrorMaxSteps
            /\ history' = Append(history,
                   AgentHistory(NoOutput, <<ErrorResult(RunErrorMaxSteps)>>, NoMetadata))
            /\ UNCHANGED step
       ELSE IF is_done(history)
       THEN /\ pc' = "returned"
            /\ UNCHANGED <<history, agent_run_error, step>>
       ELSE /\ pc' = "loop_top"
            /\ step' = step + 1
            /\ UNCHANGED <<history, agent_run_error>>
    /\ clean_steps' = IF clean_steps = step /\ CleanNonTerminal(cur)
                       THEN clean_steps + 1 ELSE clean_steps
    /\ UNCHANGED <<exchange, batch, replay, rect_union, saved, max_steps, settings, initial_actions, state, pause_event,
                   AgentOutput, context_messages, browser_state_summary,
                   i, results, signals, timeouts, cur>>

Next ==
    \/ Pause
    \/ Resume
    \/ Stop
    \/ ExecuteInitialActions
    \/ LoopTop
    \/ PauseWoken
    \/ OnStepStart
    \/ Prepare
    \/ Decide
    \/ MultiAct
    \/ PostProcess
    \/ Finalize
    \/ StepTimeout
    \/ OnStepEnd

Spec == Init /\ [][Next]_vars

\* The steps of the run() coroutine itself.  Every await of run() returns (the
\* oracle, the environment and the hooks answer, or the step timeout cuts the
\* step), so the coroutine is always resumed: weak fairness of its steps.
\* Nothing is assumed of the signals: the pause wait may last forever.
Program ==
    \/ ExecuteInitialActions \/ LoopTop \/ PauseWoken \/ OnStepStart \/ Prepare
    \/ Decide \/ MultiAct \/ PostProcess \/ Finalize \/ OnStepEnd

LiveSpec == Spec /\ WF_vars(Program)

\* ------------------------------------------------------------ one decide
\* _get_model_output_with_retry on its own: the input messages, the schema and
\* max_actions_per_step are drawn at the start, the oracle's answers at each call.
agent_vars == <<max_steps, initial_actions, state, history, pause_event,
                AgentOutput, context_messages, agent_run_error, pc, step,
                browser_state_summary, i, results, signals, timeouts, cur, clean_steps>>

\* The URLs of the input messages: after-paths of 0, 30 and 40 characters
MessageUrls == {Url("a", 0), Url("a", 30), Url("a", 40), Url("b", 40)}

MessageLists == UNION {[1..n -> MessageUrls] : n \in 1..MaxMessages}

Range(f) == {f[k] : k \in DOMAIN f}

\* What llm.ainvoke can answer: an action list the schema admits (also longer
\* than max_actions_per_step, also with empty action models) and, in its
\* strings, URLs of the messages as it was shown them
OracleAnswers(schema, messages) ==
    [action : Responses(schema)
                \cup {<<"empty", "done_true">>}
                \cup {[k \in 1..MaxActionsPerStep + 1 |-> "done_true"]},
     urls : SUBSET Range(messages)]

\* get_model_output(input_messages): the messages as it leaves them and what
\* it returns for the answer
get_model_output_call(messages, answer, cfg) ==
    LET pm == process_messages(messages)
    IN [input_messages |-> pm.messages,
        parsed |-> [action |-> get_model_output(answer.action, cfg),
                    urls |-> restore_urls(answer.urls, pm.urls_replaced)]]

DecideInit ==
    /\ max_steps = MaxSteps
    /\ settings \in [max_failures : {MaxFailures},
                     final_response_after_failure : {FALSE},
                     max_actions_per_step : 0..MaxActionsPerStep]
    /\ initial_actions = <<>>
    /\ state = [n_steps |-> 1, consecutive_failures |-> 0, last_result |-> <<>>,
                last_model_output |-> NoOutput, paused |-> FALSE, stopped |-> FALSE]
    /\ history = <<>>
    /\ pause_event = TRUE
    /\ AgentOutput \in {"full", "done"}
    /\ context_messages = {}
    /\ agent_run_error = None
    /\ pc = "decide"
    /\ step = 0
    /\ browser_state_summary = "summary"
    /\ i = 0
    /\ results = <<>>
    /\ signals = 0
    /\ timeouts = 0
    /\ cur = NoStep
    /\ clean_steps = 0
    /\ exchange \in {[NoExchange EXCEPT !.dpc = "first", !.input_messages = m] :
                        m \in MessageLists}
    /\ batch = NoBatch
    /\ replay = NoReplay
    /\ rect_union = NoRectUnion
    /\ saved = NoSaved

\* _get_model_output_with_retry: the first call of get_model_output and the
\* test of its result.  valid is FALSE when the answer does not validate
\* against the schema (llm.ainvoke raises ValidationError).
FirstCall ==
    /\ exchange.dpc = "first"
    /\ \E valid \in BOOLEAN,
          answer \in OracleAnswers(AgentOutput,
                                    process_messages(exchange.input_messages).messages) :
         LET call == get_model_output_call(exchange.input_messages, answer, settings)
             asked == [exchange EXCEPT !.calls = @ + 1,
                                       !.input_messages = call.input_messages]
         IN exchange' =
              IF ~valid THEN [asked EXCEPT !.dpc = "raised", !.failed = asked.calls]
              ELSE IF EmptyDecision(call.parsed.action)
              THEN [asked EXCEPT !.dpc = "retry", !.first = answer]
              ELSE [asked EXCEPT !.dpc = "returned", !.first = answer,
                                 !.model_output = call.parsed]
    /\ UNCHANGED <<agent_vars, settings, batch, replay, rect_union, saved>>

\* _get_model_output_with_retry: the retry (input_messages plus the
\* clarification message, which holds no URL) and the noop action
RetryCall ==
    /\ exchange.dpc = "retry"
    /\ \E valid \in BOOLEAN,
          answer \in OracleAnswers(AgentOutput,
                                    process_messages(exchange.input_messages).messages) :
         LET call == get_model_output_call(exchange.input_messages, answer, settings)
             asked == [exchange EXCEPT !.calls = @ + 1,
                                       !.input_messages = call.input_messages]
         IN exchange' =
              IF ~valid THEN [asked EXCEPT !.dpc = "raised", !.failed = asked.calls]
              ELSE IF EmptyDecision(call.parsed.action)
              THEN [asked EXCEPT !.dpc = "returned", !.second = answer,
                                 !.model_output = [call.parsed EXCEPT !.action = SafeNoop]]
              ELSE [asked EXCEPT !.dpc = "returned", !.second = answer,
                                 !.model_output = call.parsed]
    /\ UNCHANGED <<agent_vars, settings, batch, replay, rect_union, saved>>

DecideNext == FirstCall \/ RetryCall

DecideSpec == DecideInit /\ [][DecideNext]_vars

\* ------------------------------------------------------------ one batch
\* multi_act on its own: the actions, the cached snapshot and the flag are
\* drawn at the start; the page's element map changes as actions are executed;
\* stop() may be called while the batch runs.
MaxBatch == 3

BatchAction(kind, index) == [kind |-> kind, index |-> index]

BatchActions ==
    {BatchAction("click", k) : k \in Indices}
        \cup {BatchAction("navigate", NoIndex), BatchAction("done_true", NoIndex)}

Batches == UNION {[1..n -> BatchActions] : n \in 1..MaxBatch}

Kinds(actions) == [k \in DOMAIN actions |-> actions[k].kind]

\* {e.parent_branch_hash() for e in selector_map.values()}
element_hashes(selector_map) == Range(selector_map) \ {NoElement}

\* multi_act, the DOM synchronization check before an action with an index:
\* the target's hash in the cached and in the new map, then the new hashes
Observed_ignores_absent(cached_selector_map, new_selector_map, index) ==
    IF /\ cached_selector_map[index] # new_selector_map[index]
       /\ cached_selector_map[index] # NoElement /\ new_selector_map[index] # NoElement
    THEN "changed"
    ELSE IF ~(element_hashes(new_selector_map) \subseteq element_hashes(cached_selector_map))
    THEN "new"
    ELSE "same"

Observed_never_new(cached_selector_map, new_selector_map, index) ==
    IF cached_selector_map[index] # new_selector_map[index] THEN "changed" ELSE "same"

Observed(cached_selector_map, new_selector_map, index) ==
    IF cached_selector_map[index] # new_selector_map[index] THEN "changed"
    ELSE IF ~(element_hashes(new_selector_map) \subseteq element_hashes(cached_selector_map))
    THEN "new"
    ELSE "same"

\* An agent as constructed, outside run()
Constructed ==
    /\ max_steps = MaxSteps
    /\ settings = [max_failures |-> MaxFailures, final_response_after_failure |-> FALSE,
                   max_actions_per_step |-> MaxActionsPerStep]
    /\ initial_actions = <<>>
    /\ state = [n_steps |-> 1, consecutive_failures |-> 0, last_result |-> <<>>,
                last_model_output |-> NoOutput, paused |-> FALSE, stopped |-> FALSE]
    /\ history = <<>>
    /\ pause_event = TRUE
    /\ AgentOutput = "full"
    /\ context_messages = {}
    /\ agent_run_error = None
    /\ pc = "start"
    /\ step = 0
    /\ browser_state_summary = None
    /\ i = 0
    /\ results = <<>>
    /\ signals = 0
    /\ timeouts = 0
    /\ cur = NoStep
    /\ clean_steps = 0
    /\ exchange = NoExchange

BatchInit ==
    /\ Constructed
    /\ replay = NoReplay
    /\ rect_union = NoRectUnion
    /\ saved = NoSaved
    /\ batch \in {[NoBatch EXCEPT !.bpc = "running", !.actions = a,
                                   !.check_for_new_elements = c,
                                   !.cached_selector_map = m, !.selector_map = m] :
                     a \in Batches, c \in BOOLEAN, m \in SelectorMaps}

\* One iteration of multi_act's loop.  An action after which the batch goes
\* on may leave the page with any element map.
BatchIteration ==
    /\ batch.bpc = "running"
    /\ \E outcome \in {"ok", "error", "raise"} :
         LET action == batch.actions[batch.i + 1]
             observes == action.index # NoIndex /\ batch.i # 0
             env == IF observes
                    THEN Observed(batch.cached_selector_map, batch.selector_map, action.index)
                    ELSE "same"
             out == multi_act_iteration(Kinds(batch.actions), batch.i, batch.results,
                                        batch.check_for_new_elements, env, outcome, state)
             new_hashes == ~(element_hashes(batch.selector_map)
                                \subseteq element_hashes(batch.cached_selector_map))
             same_target == /\ action.index # NoIndex
                            /\ batch.cached_selector_map[action.index]
                                   = batch.selector_map[action.index]
         IN \E next_selector_map \in IF out.status = "continue" THEN SelectorMaps
                                      ELSE {batch.selector_map} :
              batch' = [batch EXCEPT
                        !.bpc = IF out.status = "continue" THEN "running" ELSE out.status,
                        !.i = IF out.status = "continue" THEN @ + 1 ELSE @,
                        !.results = out.results,
                        !.selector_map = next_selector_map,
                        !.invoked = IF out.invoked THEN Append(@, batch.i) ELSE @,
                        !.iterations = @ + 1,
                        !.new_after_first = IF batch.i = 1 THEN new_hashes ELSE @,
                        !.target_after_first = IF batch.i = 1 THEN same_target ELSE @,
                        !.observed_at = IF observes THEN batch.i ELSE @,
                        !.target_changed = IF observes THEN ~same_target ELSE @]
    /\ UNCHANGED <<agent_vars, settings, exchange, replay, rect_union, saved>>

\* stop() while the batch runs
BatchStop ==
    /\ batch.bpc = "running"
    /\ ~state.stopped
    /\ state' = [state EXCEPT !.stopped = TRUE]
    /\ UNCHANGED <<max_steps, settings, initial_actions, history, pause_event, AgentOutput,
                   context_messages, agent_run_error, pc, step, browser_state_summary,
                   i, results, signals, timeouts, cur, clean_steps, exchange, batch, replay,
                   rect_union, saved>>

BatchNext == BatchIteration \/ BatchStop

BatchSpec == BatchInit /\ [][BatchNext]_vars

\* ------------------------------------------------------------ one replay
\* rerun_history on its own: the history, the page, max_retries and
\* skip_failures are drawn at the start; tools.act may raise at each attempt
\* and the page may change under a batch; each attempt reads the same element
\* map at its start.
MaxItems == 2

MaxRetries == 2

\* A history item: model_output.action and, per action, the hash of
\* state.interacted_element (NoElement: None); has_output is FALSE for an
\* item without model_output
HistoryItem(actions, interacted_element) ==
    [has_output |-> TRUE, action |-> actions, interacted_element |-> interacted_element]

NoOutputItem == [has_output |-> FALSE, action |-> <<>>, interacted_element |-> <<>>]

\* A recorded action with the element it interacted with: a click at the
\* first index, of the element with the first hash or of no known element,
\* and an action without index
Recorded ==
    {<<BatchAction("click", 1), h>> : h \in {NoElement, 1}}
        \cup {<<BatchAction("navigate", NoIndex), NoElement>>}

\* Items of one action, and of two actions: an action without index or the
\* click of a known element, then the click of a known element
HistoryItems ==
    {NoOutputItem}
        \cup {HistoryItem(<<a[1]>>, <<a[2]>>) : a \in Recorded}
        \cup {HistoryItem(<<a[1], BatchAction("click", 1)>>, <<a[2], 1>>) :
                 a \in {b \in Recorded : b[1].index = NoIndex \/ b[2] # NoElement}}

Histories == UNION {[1..n -> HistoryItems] : n \in 1..MaxItems}

\* _update_action_indices: the action with its index set to that of the
\* first element of selector_map with the historical element's hash (first
\* stands for the order of the dictionary: the index it yields first), the
\* action as it is when there is no historical element or no element at all,
\* NoMatch (None) when no element has the hash
NoMatch == [kind |-> None, index |-> NoIndex]

update_action_indices_keeps_index(historical_element, action, selector_map, first) ==
    IF historical_element = NoElement \/ selector_map = EmptySelectorMap THEN action
    ELSE IF \A k \in Indices : selector_map[k] # historical_element THEN NoMatch
    ELSE action

update_action_indices(historical_element, action, selector_map, first) ==
    IF historical_element = NoElement \/ selector_map = EmptySelectorMap THEN action
    ELSE LET matches == {k \in Indices : selector_map[k] = historical_element}
             highlight_index == IF first \in matches THEN first
                                ELSE CHOOSE k \in matches : \A j \in matches : k <= j
         IN IF matches = {} THEN NoMatch
            ELSE [action EXCEPT !.index = highlight_index]

\* _execute_history_step, the loop over the actions from position k: the
\* item's actions as set_index leaves them, and whether an action had no match
RECURSIVE update_actions(_, _, _, _)
update_actions(item, k, selector_map, first) ==
    IF k > Len(item.action) THEN [action |-> item.action, raised |-> FALSE]
    ELSE LET updated_action == update_action_indices(item.interacted_element[k],
                                                     item.action[k], selector_map, first)
         IN IF updated_action = NoMatch THEN [action |-> item.action, raised |-> TRUE]
            ELSE update_actions([item EXCEPT !.action[k] = updated_action],
                                k + 1, selector_map, first)

\* multi_act(updated_actions) from position idx; env is what the
\* synchronization checks find after the first action, tools.act answers
\* outcome for the last action and "ok" before
RECURSIVE multi_act(_, _, _, _, _, _)
multi_act(actions, idx, res, env, outcome, s) ==
    LET out == multi_act_iteration(actions, idx, res, TRUE, env,
                                   IF idx = Len(actions) - 1 THEN outcome ELSE "ok", s)
    IN IF out.status = "continue"
       THEN multi_act(actions, idx + 1, out.results, env, outcome, s)
       ELSE out

ReplayInit ==
    /\ Constructed
    /\ batch = NoBatch
    /\ rect_union = NoRectUnion
    /\ saved = NoSaved
    /\ replay \in {[NoReplay EXCEPT !.rpc = "loop", !.history = h, !.original = h,
                                     !.selector_map = m, !.max_retries = r,
                                     !.skip_failures = f] :
                      h \in Histories, m \in SelectorMaps, r \in 0..MaxRetries,
                      f \in BOOLEAN}

\* rerun_history: an item without model_output or without action
ReplayNoAction ==
    /\ replay.rpc = "loop"
    /\ replay.i <= Len(replay.history)
    /\ LET history_item == replay.history[replay.i]
       IN /\ ~history_item.has_output \/ history_item.action = <<>>
          /\ replay' = [replay EXCEPT
                          !.results = Append(@, ErrorResult("No action to replay")),
                          !.i = @ + 1]
    /\ UNCHANGED <<agent_vars, settings, exchange, batch, rect_union, saved>>

\* rerun_history: max_retries is 0, the while loop is not entered
ReplayNoAttempt ==
    /\ replay.rpc = "loop"
    /\ replay.i <= Len(replay.history)
    /\ replay.history[replay.i].has_output
    /\ replay.history[replay.i].action # <<>>
    /\ ~(replay.retry_count < replay.max_retries)
    /\ replay' = [replay EXCEPT !.i = @ + 1, !.retry_count = 0]
    /\ UNCHANGED <<agent_vars, settings, exchange, batch, rect_union, saved>>

\* rerun_history: one pass of the while loop, a call of _execute_history_step
\* and what follows its return or its exception
ReplayAttempt ==
    /\ replay.rpc = "loop"
    /\ replay.i <= Len(replay.history)
    /\ replay.history[replay.i].has_output
    /\ replay.history[replay.i].action # <<>>
    /\ replay.retry_count < replay.max_retries
    /\ \E first \in Indices, outcome \in {"ok", "raise"}, env \in {"same", "changed"} :
         LET history_item == replay.history[replay.i]
             updated == update_actions(history_item, 1, replay.selector_map, first)
             out == IF updated.raised
                    THEN [status |-> "Exception", results |-> <<>>, invoked |-> FALSE]
                    ELSE multi_act(Kinds(updated.action), 0, <<>>, env, outcome, state)
             retry_count == replay.retry_count + 1
             tried == [replay EXCEPT
                         !.history[replay.i].action = updated.action,
                         !.attempted = replay.i,
                         !.attempts = IF replay.attempted = replay.i THEN @ + 1 ELSE 1,
                         !.len0 = IF replay.attempted = replay.i THEN @ ELSE Len(replay.results),
                         !.raised = out.status # "return",
                         !.updated_actions = IF updated.raised THEN <<>>
                                             ELSE updated.action]
         IN replay' =
              IF out.status = "return"
              THEN [tried EXCEPT !.results = @ \o out.results,
                                 !.i = @ + 1, !.retry_count = 0]
              ELSE IF retry_count = replay.max_retries /\ ~replay.skip_failures
              THEN [tried EXCEPT !.rpc = "raised", !.retry_count = retry_count,
                                 !.results = Append(@, ErrorResult("failed after attempts"))]
              ELSE IF retry_count = replay.max_retries
              THEN [tried EXCEPT !.i = @ + 1, !.retry_count = 0]
              ELSE [tried EXCEPT !.retry_count = retry_count]
    /\ UNCHANGED <<agent_vars, settings, exchange, batch, rect_union, saved>>

\* rerun_history: after the last item, close() and return results
ReplayReturn ==
    /\ replay.rpc = "loop"
    /\ replay.i > Len(replay.history)
    /\ replay' = [replay EXCEPT !.rpc = "returned"]
    /\ UNCHANGED <<agent_vars, settings, exchange, batch, rect_union, saved>>

ReplayNext == ReplayNoAction \/ ReplayNoAttempt \/ ReplayAttempt \/ ReplayReturn

ReplaySpec == ReplayInit /\ [][ReplayNext]_vars

\* ------------------------------------------------------------ paint_order.py
\* One RectUnionPure, seen on its own, receiving add calls.  Coordinates are
\* the integers 0..MaxCoord.
MaxCoord == 2

MaxAdds == 3

Rect(x1, y1, x2, y2) == [x1 |-> x1, y1 |-> y1, x2 |-> x2, y2 |-> y2]

Rect_area(r) == (r.x2 - r.x1) * (r.y2 - r.y1)

Rect_intersects(a, other) ==
    ~(a.x2 <= other.x1 \/ other.x2 <= a.x1 \/ a.y2 <= other.y1 \/ other.y2 <= a.y1)

Rect_contains(a, other) ==
    a.x1 <= other.x1 /\ a.y1 <= other.y1 /\ a.x2 >= other.x2 /\ a.y2 >= other.y2

\* The rectangles calculate_paint_order keeps: _rect_from_node and _intersect
\* give none when x2 < x1 or y2 < y1, and a rectangle of area 0 is skipped
Rects ==
    {r \in [x1 : 0..MaxCoord, y1 : 0..MaxCoord, x2 : 0..MaxCoord, y2 : 0..MaxCoord] :
        ~(r.x2 < r.x1 \/ r.y2 < r.y1) /\ Rect_area(r) # 0}

\* RectUnionPure._split_diff: a \ b as bottom, top, left and right slices
split_diff_uncut(a, b) == <<a>>

split_diff(a, b) ==
    LET y_lo == IF a.y1 >= b.y1 THEN a.y1 ELSE b.y1
        y_hi == IF a.y2 <= b.y2 THEN a.y2 ELSE b.y2
    IN (IF a.y1 < b.y1 THEN <<Rect(a.x1, a.y1, a.x2, b.y1)>> ELSE <<>>)
       \o (IF b.y2 < a.y2 THEN <<Rect(a.x1, b.y2, a.x2, a.y2)>> ELSE <<>>)
       \o (IF a.x1 < b.x1 THEN <<Rect(a.x1, y_lo, b.x1, y_hi)>> ELSE <<>>)
       \o (IF b.x2 < a.x2 THEN <<Rect(b.x2, y_lo, a.x2, y_hi)>> ELSE <<>>)

\* RectUnionPure.contains, the inner loop: what is left of the stack after s
RECURSIVE contains_new_stack(_, _)
contains_new_stack(stack, s) ==
    IF stack = <<>> THEN <<>>
    ELSE LET piece == Head(stack)
             rest == contains_new_stack(Tail(stack), s)
         IN IF Rect_contains(s, piece) THEN rest
            ELSE IF Rect_intersects(piece, s) THEN split_diff(piece, s) \o rest
            ELSE <<piece>> \o rest

\* RectUnionPure.contains, the loop over _rects from the k-th on
RECURSIVE contains_from(_, _, _)
contains_from(rects, k, stack) ==
    IF k > Len(rects) THEN FALSE
    ELSE LET new_stack == contains_new_stack(stack, rects[k])
         IN IF new_stack = <<>> THEN TRUE
            ELSE contains_from(rects, k + 1, new_stack)

RectUnionPure_contains(rects, r) ==
    IF rects = <<>> THEN FALSE ELSE contains_from(rects, 1, <<r>>)

\* RectUnionPure.add, the inner loop: what is left of pending after s
RECURSIVE add_new_pending(_, _)
add_new_pending(pending, s) ==
    IF pending = <<>> THEN <<>>
    ELSE LET piece == Head(pending)
             rest == add_new_pending(Tail(pending), s)
         IN IF Rect_intersects(piece, s) THEN split_diff(piece, s) \o rest
            ELSE <<piece>> \o rest

\* RectUnionPure.add, the loop over _rects from the k-th on
RECURSIVE add_from(_, _, _)
add_from(rects, k, pending) ==
    IF k > Len(rects) THEN pending
    ELSE add_from(rects, k + 1, add_new_pending(pending, rects[k]))

\* RectUnionPure.add: _rects after the call and what it returns
RectUnionPure_add(rects, r) ==
    IF RectUnionPure_contains(rects, r)
    THEN [rects |-> rects, returns |-> FALSE]
    ELSE [rects |-> rects \o add_from(rects, 1, <<r>>), returns |-> TRUE]

\* The unit squares of the plane inside a rectangle, and a rectangle all of
\* whose squares lie in the rectangles of a list
Squares(r) == (r.x1 .. r.x2 - 1) \X (r.y1 .. r.y2 - 1)

Covered(rects, r) ==
    Squares(r) \subseteq UNION {Squares(rects[k]) : k \in 1..Len(rects)}

RectInit ==
    /\ Constructed
    /\ batch = NoBatch
    /\ replay = NoReplay
    /\ saved = NoSaved
    /\ rect_union = NoRectUnion

\* One call of add
RectAdd ==
    /\ rect_union.adds < MaxAdds
    /\ \E r \in Rects :
         LET out == RectUnionPure_add(rect_union.rects, r)
         IN rect_union' = [rects |-> out.rects, adds |-> rect_union.adds + 1, r |-> r,
                           grew |-> out.returns,
                           covered |-> Covered(rect_union.rects, r),
                           same |-> out.rects = rect_union.rects]
    /\ UNCHANGED <<agent_vars, settings, exchange, batch, replay, saved>>

RectNext == RectAdd

RectSpec == RectInit /\ [][RectNext]_vars

\* ------------------------------------------------------------ history files
\* One history file, seen on its own: save_to_file of an AgentHistoryList and
\* load_from_file of a document.  An optional value is Nothing (None, JSON
\* null) or Some(v); a dict is a function from its keys; json.dump and
\* json.load keep such documents as they are.
MaxRecords == 2

MaxTabs == 2

MaxPageId == 1

Nothing == <<>>

Some(v) == <<v>>

Without(d, key) == [k \in DOMAIN d \ {key} |-> d[k]]

With(d, key, v) == [k \in DOMAIN d \cup {key} |-> IF k = key THEN v ELSE d[k]]

\* model_dump(exclude_none=True) of an object with optional fields
exclude_none_keeps_all(obj) == obj

exclude_none(obj) == [k \in {f \in DOMAIN obj : obj[f] # Nothing} |-> obj[k]]

\* ActionResult: the optional fields and their defaults
ActionResultDefaults ==
    [is_done |-> Some(FALSE), success |-> Nothing, error |-> Nothing,
     extracted_content |-> Nothing]

\* ActionModel: one optional field per registered action
ActionModelDefaults == [click |-> Nothing, done |-> Nothing]

\* AgentOutput: the optional fields (action is required, extra keys are forbidden)
AgentOutputDefaults ==
    [thinking |-> Nothing, evaluation_previous_goal |-> Nothing, memory |-> Nothing,
     next_goal |-> Nothing]

\* model_validate of a dict against optional fields with defaults
Validated(d, defaults) ==
    [f \in DOMAIN defaults |-> IF f \in DOMAIN d THEN d[f] ELSE defaults[f]]

\* ActionResult.model_validate, with validate_success_requires_done
ActionResultValid(d) ==
    LET r == Validated(d, ActionResultDefaults)
    IN /\ DOMAIN d \subseteq DOMAIN ActionResultDefaults
       /\ ~(r.success = Some(TRUE) /\ r.is_done # Some(TRUE))

\* AgentOutput.model_validate
AgentOutputValid(d) ==
    /\ DOMAIN d \subseteq DOMAIN AgentOutputDefaults \cup {"action"}
    /\ "action" \in DOMAIN d
    /\ \A k \in 1..Len(d.action) : DOMAIN d.action[k] \subseteq DOMAIN ActionModelDefaults

AgentOutputValidated(d) ==
    [f \in DOMAIN AgentOutputDefaults \cup {"action"} |->
        IF f = "action"
        THEN [k \in 1..Len(d.action) |-> Validated(d.action[k], ActionModelDefaults)]
        ELSE IF f \in DOMAIN d THEN d[f] ELSE Nothing]

\* DOMInteractedElement: the fields _migrate_legacy_format calls required
required_fields ==
    {"node_id", "backend_node_id", "frame_id", "node_type", "node_value", "node_name",
     "bounds", "x_path", "element_hash"}

\* TabInfo: its fields
tab_fields == {"url", "tab_id", "parent_tab_id"}

\* BrowserStateHistory.to_dict: every tab and every element as a dict of its fields
BrowserStateHistory_to_dict(bsh) ==
    [tabs |-> [k \in 1..Len(bsh.tabs) |->
                 [f \in tab_fields |-> bsh.tabs[k][f]]],
     interacted_element |-> [k \in 1..Len(bsh.interacted_element) |->
         IF bsh.interacted_element[k] = Nothing THEN Nothing
         ELSE Some([f \in required_fields |-> bsh.interacted_element[k][1][f]])]]

\* BrowserStateHistory validated from a dict: a tab needs url and tab_id, an
\* element every required field; other keys are ignored
BrowserStateHistoryValid(d) ==
    /\ {"tabs", "interacted_element"} \subseteq DOMAIN d
    /\ \A k \in 1..Len(d.tabs) : {"url", "tab_id"} \subseteq DOMAIN d.tabs[k]
    /\ \A k \in 1..Len(d.interacted_element) :
           d.interacted_element[k] # Nothing =>
               required_fields \subseteq DOMAIN d.interacted_element[k][1]

BrowserStateHistoryValidated(d) ==
    [tabs |-> [k \in 1..Len(d.tabs) |->
                 [f \in tab_fields |->
                     IF f \in DOMAIN d.tabs[k] THEN d.tabs[k][f] ELSE Nothing]],
     interacted_element |-> [k \in 1..Len(d.interacted_element) |->
         IF d.interacted_element[k] = Nothing THEN Nothing
         ELSE Some([f \in required_fields |-> d.interacted_element[k][1][f]])]]

\* AgentHistory.model_dump
AgentHistory_model_dump(h) ==
    LET model_output == h.model_output[1]
        model_output_dump ==
            IF h.model_output = Nothing THEN Nothing
            ELSE LET base == [evaluation_previous_goal |-> model_output.evaluation_previous_goal,
                              memory |-> model_output.memory,
                              next_goal |-> model_output.next_goal,
                              action |-> [k \in 1..Len(model_output.action) |->
                                             exclude_none(model_output.action[k])]]
                 IN Some(IF model_output.thinking # Nothing
                         THEN With(base, "thinking", model_output.thinking)
                         ELSE base)
    IN [model_output |-> model_output_dump,
        result |-> [k \in 1..Len(h.result) |-> exclude_none(h.result[k])],
        state |-> BrowserStateHistory_to_dict(h.state),
        metadata |-> h.metadata]

\* AgentHistoryList.model_dump
AgentHistoryList_model_dump(history_list) ==
    [history |-> [k \in 1..Len(history_list) |-> AgentHistory_model_dump(history_list[k])]]

\* f"{page_id:04d}": the decimal digits, zero-padded to four characters
RECURSIVE Digits(_)
Digits(n) == IF n < 10 THEN <<n>> ELSE Append(Digits(n \div 10), n % 10)

RECURSIVE ZeroPad(_, _)
ZeroPad(digits, width) ==
    IF Len(digits) >= width THEN digits ELSE ZeroPad(<<0>> \o digits, width)

Format04d(n) == ZeroPad(Digits(n), 4)

\* str.upper on the tag names of the model
Upper(name) == CASE name = "div" -> "DIV" [] name = "a" -> "A" [] OTHER -> name

\* _migrate_legacy_format: one tab
migrate_tab_keeps_page_id(tab) == tab

migrate_tab(tab) ==
    LET t1 == IF "page_id" \in DOMAIN tab /\ "tab_id" \notin DOMAIN tab
              THEN With(Without(tab, "page_id"), "tab_id", Format04d(tab["page_id"]))
              ELSE tab
    IN IF "parent_page_id" \in DOMAIN t1 /\ "parent_tab_id" \notin DOMAIN t1
       THEN With(Without(t1, "parent_page_id"), "parent_tab_id",
                 IF t1["parent_page_id"] # Nothing
                 THEN Some(Format04d(t1["parent_page_id"][1]))
                 ELSE Nothing)
       ELSE t1

\* _migrate_legacy_format: one element dict; element_hash is what hash()
\* gives for the string xpath + tag_name in this process
migrate_element(element, element_hash) ==
    IF required_fields \subseteq DOMAIN element THEN element
    ELSE LET filled ==
                 [k \in DOMAIN element \cup required_fields |->
                     IF k \in DOMAIN element THEN element[k]
                     ELSE CASE k = "node_id" -> 0
                            [] k = "backend_node_id" -> 0
                            [] k = "frame_id" -> Nothing
                            [] k = "node_type" -> 1
                            [] k = "node_value" -> ""
                            [] k = "node_name" ->
                                 Upper(IF "tag_name" \in DOMAIN element
                                       THEN element["tag_name"] ELSE "div")
                            [] k = "bounds" -> Nothing
                            [] k = "x_path" ->
                                 IF "xpath" \in DOMAIN element THEN element["xpath"] ELSE ""
                            [] k = "element_hash" -> element_hash]
         IN IF "xpath" \in DOMAIN filled /\ "x_path" \in DOMAIN filled
            THEN Without(filled, "xpath")
            ELSE filled

\* _migrate_legacy_format: the state of one record
migrate_state(st, element_hash) ==
    LET s1 == IF "tabs" \in DOMAIN st
              THEN With(st, "tabs",
                        [k \in 1..Len(st["tabs"]) |-> migrate_tab(st["tabs"][k])])
              ELSE st
    IN IF "interacted_element" \in DOMAIN s1
       THEN With(s1, "interacted_element",
                 [k \in 1..Len(s1["interacted_element"]) |->
                     IF s1["interacted_element"][k] = Nothing THEN Nothing
                     ELSE Some(migrate_element(s1["interacted_element"][k][1],
                                               element_hash))])
       ELSE s1

migrate_legacy_format(data, element_hash) ==
    IF "history" \notin DOMAIN data THEN data
    ELSE With(data, "history",
              [k \in 1..Len(data["history"]) |->
                  IF "state" \notin DOMAIN data["history"][k] THEN data["history"][k]
                  ELSE With(data["history"][k], "state",
                            migrate_state(data["history"][k]["state"], element_hash))])

\* load_from_file after the migration: whether the data validates, and the
\* AgentHistoryList.history it gives
LoadValid(data) ==
    \A k \in 1..Len(data.history) :
        LET h == data.history[k]
        IN /\ h.model_output # Nothing => AgentOutputValid(h.model_output[1])
           /\ \A j \in 1..Len(h.result) : ActionResultValid(h.result[j])
           /\ BrowserStateHistoryValid(
                  IF "interacted_element" \notin DOMAIN h.state
                  THEN With(h.state, "interacted_element", Nothing)
                  ELSE h.state)

Loaded(data) ==
    [k \in 1..Len(data.history) |->
        LET h == data.history[k]
        IN [model_output |-> IF h.model_output = Nothing THEN Nothing
                             ELSE Some(AgentOutputValidated(h.model_output[1])),
            result |-> [j \in 1..Len(h.result) |->
                           Validated(h.result[j], ActionResultDefaults)],
            state |-> BrowserStateHistoryValidated(
                          IF "interacted_element" \notin DOMAIN h.state
                          THEN With(h.state, "interacted_element", Nothing)
                          ELSE h.state),
            metadata |-> h.metadata]]

\* The histories that are saved: up to MaxRecords records, each with one
\* ActionResult that its validator accepts
SavedResults ==
    {r \in [is_done : {Nothing, Some(TRUE), Some(FALSE)},
            success : {Nothing, Some(TRUE), Some(FALSE)},
            error : {Nothing, Some("e")},
            extracted_content : {Nothing}] :
        /\ ActionResultValid(r)
        /\ r.error # Nothing => r.success = Nothing /\ r.is_done # Some(TRUE)}

SavedOutputs ==
    {Nothing,
     Some([thinking |-> Nothing, evaluation_previous_goal |-> Some("e"),
           memory |-> Some("m"), next_goal |-> Some("n"),
           action |-> <<[click |-> Some([index |-> 1]), done |-> Nothing]>>]),
     Some([thinking |-> Some("t"), evaluation_previous_goal |-> Nothing,
           memory |-> Some("m"), next_goal |-> Nothing,
           action |-> <<[click |-> Nothing, done |-> Some([success |-> TRUE])]>>])}

CurrentTab == [url |-> "u", tab_id |-> <<10, 11, 12, 13>>, parent_tab_id |-> Nothing]

CurrentElement ==
    [node_id |-> 5, backend_node_id |-> 6, frame_id |-> Nothing, node_type |-> 1,
     node_value |-> "", node_name |-> "A", bounds |-> Nothing, x_path |-> "/a",
     element_hash |-> 1]

SavedItem(output, r) ==
    [model_output |-> output,
     result |-> <<r>>,
     state |-> [tabs |-> <<CurrentTab>>,
                interacted_element |->
                    <<IF output = Nothing THEN Nothing ELSE Some(CurrentElement)>>],
     metadata |-> IF output = Nothing THEN Nothing
                  ELSE Some([step_start_time |-> 0, step_end_time |-> 1,
                             step_number |-> 1])]

SavedItems == {SavedItem(o, r) : o \in SavedOutputs, r \in SavedResults}

SavedHistories == UNION {[1..n -> SavedItems] : n \in 0..MaxRecords}

\* The documents found on disk: one record whose state has up to MaxTabs tabs
\* and one interacted element, each as an older or as the current version
\* wrote it
LegacyTabs ==
    {[page_id |-> p, url |-> "u"] : p \in 0..MaxPageId}
    \cup {[page_id |-> p, parent_page_id |-> q, url |-> "u"] :
            p \in 0..MaxPageId, q \in {Nothing} \cup {Some(n) : n \in 0..MaxPageId}}

LegacyElements ==
    {[tag_name |-> "a", xpath |-> "/a", highlight_index |-> 1],
     [xpath |-> "/a", highlight_index |-> 1],
     [tag_name |-> "a", highlight_index |-> 1],
     [highlight_index |-> 1]}

DiskDocument(tabs, element) ==
    [history |-> <<[model_output |-> Nothing,
                    result |-> <<[is_done |-> Some(FALSE), error |-> Some("e")]>>,
                    state |-> [tabs |-> tabs, interacted_element |-> <<element>>],
                    metadata |-> Nothing]>>]

DiskDocuments ==
    {DiskDocument(tabs, element) :
        tabs \in UNION {[1..n -> LegacyTabs \cup {CurrentTab}] : n \in 1..MaxTabs},
        element \in {Nothing} \cup {Some(e) : e \in LegacyElements \cup {CurrentElement}}}

FileInit ==
    /\ Constructed
    /\ batch = NoBatch
    /\ replay = NoReplay
    /\ rect_union = NoRectUnion
    /\ saved \in {[NoSaved EXCEPT !.fpc = "history", !.origin = "object", !.history = h] :
                     h \in SavedHistories}
               \cup {[NoSaved EXCEPT !.fpc = "file", !.origin = "disk", !.document = d] :
                        d \in DiskDocuments}

\* save_to_file
SaveToFile ==
    /\ saved.fpc = "history"
    /\ saved' = [saved EXCEPT !.fpc = "file",
                              !.document = AgentHistoryList_model_dump(saved.history)]
    /\ UNCHANGED <<agent_vars, settings, exchange, batch, replay, rect_union>>

\* load_from_file
LoadFromFile ==
    /\ saved.fpc = "file"
    /\ \E element_hash \in Hashes :
         LET data == migrate_legacy_format(saved.document, element_hash)
         IN saved' = [saved EXCEPT !.migrated = data,
                                   !.fpc = IF LoadValid(data) THEN "loaded" ELSE "failed",
                                   !.loaded = IF LoadValid(data) THEN Loaded(data) ELSE <<>>]
    /\ UNCHANGED <<agent_vars, settings, exchange, batch, replay, rect_union>>

FileNext == SaveToFile \/ LoadFromFile

FileSpec == FileInit /\ [][FileNext]_vars

\* ------------------------------------------------------------ claims
\* An invocation of step() has just ended (run() is about to call on_step_end)
StepEnded == pc = "on_step_end"

Threshold == settings.max_failures + (IF settings.final_response_after_failure THEN 1 ELSE 0)

LastResultTerminal(h) ==
    /\ Len(h) > 0
    /\ Len(h[Len(h)].result) > 0
    /\ h[Len(h)].result[Len(h[Len(h)].result)].is_done

\* C1: the consecutive-failure counter is 0 after a step that yields more than
\* one result or a single result without error; it is one more than before
\* after a step that yields exactly one erroring result or fails outright
\* (exception, step timeout); it never grows by 2 or more in one step.
C1_CounterPerStep ==
    StepEnded =>
        LET y == cur.yielded
            yields == cur.acted /\ ~cur.timed_out
        IN /\ (yields /\ (Len(y) > 1 \/ (Len(y) = 1 /\ y[1].error = None)))
                => state.consecutive_failures = 0
           /\ \/ yields /\ Len(y) = 1 /\ y[1].error # None
              \/ cur.raised = "Exception" /\ ~cur.timed_out
              \/ cur.timed_out /\ cur.raised = None /\ ~cur.acted
                => state.consecutive_failures = cur.cf0 + 1
           /\ cur.raised # "InterruptedError"
                => state.consecutive_failures <= cur.cf0 + 1

\* C2: a step abandoned by the InterruptedError of the stop / pause check
\* leaves the consecutive-failure counter as it was when the step began.
C2_InterruptNotCounted ==
    (StepEnded /\ cur.raised = "InterruptedError" /\ ~cur.timed_out)
        => state.consecutive_failures = cur.cf0

\* C3: every invocation of step() increases n_steps by exactly 1, however the
\* step ends (success, exception, interruption, step timeout).
C3_StepCounter ==
    StepEnded => state.n_steps = cur.n0 + 1

\* C4: an iteration of run() that begins with consecutive_failures >=
\* max_failures + (1 if final_response_after_failure) never invokes step(): the
\* loop exits with the run-level error for consecutive failures and run()
\* returns the history, it does not raise.
C4_Step ==
    /\ (/\ pc \in {"loop_top", "pause_woken"}
        /\ pc' \notin {pc, "pause_wait"}
        /\ state.consecutive_failures >= Threshold)
          => /\ pc' = "returned"
             /\ agent_run_error' = RunErrorFailures
             /\ history' = history
             /\ cur' = cur
    /\ pc' \in {"on_step_start", "prepare"} => state'.consecutive_failures < Threshold

C4_BudgetGate == [][C4_Step]_vars

C4_Witness ==
    /\ pc = "returned" /\ agent_run_error = RunErrorFailures
    /\ cur.started /\ state.consecutive_failures >= Threshold
    /\ settings.max_failures > 0

\* C5: whenever the oracle is asked in the last step of the budget, or in a
\* step that began with consecutive_failures >= max_failures while
\* final_response_after_failure is set, its schema is the done-only schema and
\* the prompt carries the directive demanding a single done action.
C5_ForcedDone ==
    (cur.started /\ cur.oracle_schema # None) =>
        /\ cur.step_number = max_steps - 1
             => cur.oracle_schema = "done" /\ "last_step" \in cur.oracle_messages
        /\ (cur.cf0 >= settings.max_failures /\ settings.final_response_after_failure)
             => /\ cur.oracle_schema = "done"
                /\ "force_done_after_failure" \in cur.oracle_messages

C5_Witness ==
    /\ cur.started /\ cur.oracle_schema = "done"
    /\ cur.step_number < max_steps - 1
    /\ cur.cf0 >= settings.max_failures /\ settings.final_response_after_failure

\* C6: a step cut off by the step timeout leaves exactly one ActionResult
\* carrying the timeout error as the step's outcome, counts once toward the
\* failure budget, and does not abort the run.
C6_TimeoutRecorded ==
    (StepEnded /\ cur.timed_out /\ cur.raised # "InterruptedError") =>
        /\ state.last_result = <<ErrorResult(StepTimedOut)>>
        /\ state.consecutive_failures >= 1
        /\ state.consecutive_failures <= cur.cf0 + 1
        /\ agent_run_error = None

Synthetic(item) ==
    item.model_output = NoOutput /\ item.result = <<ErrorResult(RunErrorMaxSteps)>>

NumSynthetic == Cardinality({k \in 1..Len(history) : Synthetic(history[k])})

C8_Exhausted ==
    /\ pc # "returned" => NumSynthetic = 0
    /\ pc = "returned" =>
         /\ (agent_run_error = RunErrorMaxSteps) <=> (NumSynthetic = 1)
         /\ NumSynthetic <= 1
         /\ NumSynthetic = 1 =>
              /\ Synthetic(history[Len(history)])
              /\ \A k \in 1..Len(history) :
                    \A j \in 1..Len(history[k].result) : ~history[k].result[j].is_done
              /\ cur.started /\ cur.step_number = max_steps - 1
         /\ (cur.started /\ cur.step_number = max_steps - 1)
              => (NumSynthetic = 1 \/ LastResultTerminal(history))
         /\ LastResultTerminal(history) => NumSynthetic = 0

C8_Witness ==
    /\ pc = "returned" /\ agent_run_error = RunErrorMaxSteps
    /\ Len(history) > 1 /\ Synthetic(history[Len(history)])

C8_WitnessOtherExit ==
    /\ pc = "returned" /\ agent_run_error = RunErrorStopped /\ cur.started

\* C9 (as stated): when the oracle decides non-terminal actions that succeed on
\* steps 1..N-1 and a successful done on step N = max_steps, run() ends with
\* exactly N records, is_done() and is_successful().
CleanRunToDone ==
    /\ pc = "returned"
    /\ clean_steps = max_steps - 1
    /\ cur.started /\ cur.step_number = max_steps - 1 /\ Clean(cur)
    /\ cur.yielded = <<act("done_true", "ok")>>

C9_ExactlyNRecords ==
    CleanRunToDone =>
        /\ Len(history) = max_steps
        /\ is_done(history)
        /\ is_successful(history) = "true"

\* C9 (amended): ... run() ends with N records appended by its steps, after the
\* one record of the initial actions when the agent has initial actions;
\* is_done() and is_successful() hold.
C9_NStepRecords ==
    CleanRunToDone =>
        /\ Len(history) = max_steps + (IF initial_actions # <<>> THEN 1 ELSE 0)
        /\ \A k \in 1..Len(history) :
              history[k].metadata = k - (IF initial_actions # <<>> THEN 1 ELSE 0)
        /\ LastResultTerminal(history)
        /\ history[Len(history)].result[1].success = "true"
        /\ is_done(history)
        /\ is_successful(history) = "true"

C9_Witness == CleanRunToDone /\ max_steps > 1 /\ initial_actions # <<>>

\* C10: every invocation of step() appends exactly one record to the history,
\* also when an earlier phase failed.
C10_OneRecordPerStep ==
    StepEnded => Len(history) = cur.h0 + 1

\* C11: step() never propagates an exception to run(): a failure of any of its
\* phases, _finalize included, ends the step with a single error ActionResult
\* as the step's result.
C11_StepNeverThrows ==
    /\ cur.started => pc # "raised"
    /\ (StepEnded /\ cur.raised # None /\ ~cur.timed_out)
         => /\ Len(state.last_result) = 1
            /\ state.last_result[1].error # None

\* C12: a stop() that arrives while run() is blocked in the pause wait releases
\* the wait; the loop then sees the stopped flag and run() returns without
\* entering step() again.
C12_Step ==
    /\ (pc = "pause_wait" /\ signals' # signals /\ state'.stopped /\ pause_event')
          => pc' = "pause_woken"
    /\ (pc = "pause_woken" /\ state.stopped /\ pc' # pc)
          => pc' = "returned" /\ cur' = cur /\ history' = history
    /\ pc = "returned" => pc' = "returned"

C12_StopReleasesPause == [][C12_Step]_vars

C12_Witness ==
    /\ pc = "returned" /\ agent_run_error = RunErrorStopped
    /\ state.stopped /\ state.paused /\ pause_event
    /\ cur.started /\ cur.raised = "InterruptedError" /\ cur.step_number < max_steps - 1

\* C13: a pause() never records a failure: in a run that was never stopped, a
\* step that the pause interrupted leaves the consecutive-failure counter as it
\* was and leaves no error ActionResult.
C13_PauseNoFailure ==
    (StepEnded /\ ~state.stopped /\ ~cur.timed_out /\ cur.raised = "InterruptedError")
        => /\ state.consecutive_failures = cur.cf0
           /\ \A k \in 1..Len(state.last_result) : state.last_result[k].error = None

\* C14 (as stated): an iteration that begins with the stopped flag set leaves
\* the loop without entering step(), and the run-level error is the
\* 'stopped programmatically' error.
C14_Step ==
    (pc \in {"loop_top", "pause_woken"} /\ state.stopped /\ pc' \notin {pc, "pause_wait"})
        => /\ pc' = "returned"
           /\ cur' = cur /\ history' = history
           /\ agent_run_error' = RunErrorStopped

C14_StoppedError == [][C14_Step]_vars

\* C14 (amended): ... the run-level error is the 'stopped programmatically'
\* error unless the failure budget is exhausted as well: then it is the
\* consecutive-failures error.
C14_AmendedStep ==
    (pc \in {"loop_top", "pause_woken"} /\ state.stopped /\ pc' \notin {pc, "pause_wait"})
        => /\ pc' = "returned"
           /\ cur' = cur /\ history' = history
           /\ agent_run_error' = IF state.consecutive_failures >= Threshold
                                  THEN RunErrorFailures ELSE RunErrorStopped

C14_StoppedOrFailures == [][C14_AmendedStep]_vars

C14_Witness ==
    /\ pc = "returned" /\ state.stopped /\ agent_run_error = RunErrorFailures
    /\ cur.started /\ cur.raised = "Exception"

\* C15: tools.act is never invoked while the stopped flag is set: a stop that
\* arrives during the oracle call or between two actions abandons the step
\* before the next action.
ActInvoked ==
    /\ pc \in {"act", "initial_actions"}
    /\ \/ i' = i + 1
       \/ pc = "act" /\ pc' = "finalize" /\ cur'.raised = "Exception"
       \/ pc = "initial_actions" /\ pc' = "raised" /\ agent_run_error' = "Exception"
       \/ /\ pc' \in {"post_process", "loop_top"}
          /\ Len(state'.last_result) = Len(results) + 1
          /\ state'.last_result[Len(results) + 1].extracted_content
                \notin {"Page changed after action", "Something new appeared"}

C15_Step == ActInvoked => ~state.stopped

C15_NoActionAfterStop == [][C15_Step]_vars

C15_Witness ==
    /\ StepEnded /\ state.stopped /\ ~state.paused
    /\ cur.raised = "InterruptedError" /\ ~cur.acted /\ Len(cur.yielded) = 1

\* C16: if run() is never blocked in the pause wait forever, it terminates
\* (returns or raises); step() is entered only for loop indices below
\* max_steps, each larger than the one before, so at most max_steps times.
RunEnded == pc \in {"returned", "raised"}

C16_Step ==
    (pc = "on_step_start" /\ pc' = "prepare")
        => /\ step < max_steps
           /\ cur.started => cur.step_number < step

C16_Terminates ==
    /\ []<>(pc # "pause_wait") => <>RunEnded
    /\ [][C16_Step]_vars

C16_Witness ==
    /\ pc = "returned" /\ agent_run_error = None
    /\ cur.started /\ cur.step_number = max_steps - 1 /\ max_steps = MaxSteps
    /\ signals = MaxSignals /\ ~state.paused /\ ~state.stopped

\* An action list with no action, or with only actions that serialize to {}
StructurallyEmpty(action) ==
    \A k \in 1..Len(action) : action[k] = "empty"

\* The first n actions of an action list
Cut(action, n) == SubSeq(action, 1, IF Len(action) < n THEN Len(action) ELSE n)

Max(a, b) == IF a > b THEN a ELSE b

\* C17: when the first answer of the oracle is empty the retry is made, and
\* when the answer to the retry is empty too, the decision handed on holds
\* exactly one action, the done action with success = False; the decide
\* returns, it does not raise.
C17_EmptyTwice ==
    /\ (exchange.dpc \in {"retry", "returned"} /\ StructurallyEmpty(exchange.first.action))
          => exchange.dpc = "retry" \/ exchange.calls = 2
    /\ (/\ exchange.dpc = "returned" /\ exchange.calls = 2
        /\ StructurallyEmpty(exchange.first.action)
        /\ StructurallyEmpty(exchange.second.action))
          => exchange.model_output.action = <<"done_false">>

C17_Witness ==
    /\ exchange.dpc = "returned" /\ exchange.calls = 2
    /\ exchange.first.action = <<>> /\ exchange.second.action = <<"empty">>
    /\ exchange.model_output.action = <<"done_false">>

\* C18: the decision a decide returns holds at least 1 and at most
\* max(1, max_actions_per_step) actions, whatever the oracle answered (empty,
\* over-long, well-formed) to the first call and to the retry.
C18_ActionCount ==
    exchange.dpc = "returned" =>
        /\ Len(exchange.model_output.action) >= 1
        /\ Len(exchange.model_output.action) <= Max(1, settings.max_actions_per_step)

C18_Witness ==
    /\ exchange.dpc = "returned" /\ exchange.calls = 2
    /\ settings.max_actions_per_step >= 1
    /\ Len(exchange.first.action) = 0
    /\ Len(exchange.second.action) > settings.max_actions_per_step
    /\ Len(exchange.model_output.action) = settings.max_actions_per_step

\* C19 (as stated): a decide calls the oracle at most twice, the second time
\* only when the first answer is structurally empty; an answer that fails
\* validation ends the decide at once, with no further call.
C19_AtMostTwoCalls ==
    /\ exchange.calls <= 2
    /\ exchange.calls = 2 => StructurallyEmpty(exchange.first.action)
    /\ exchange.failed # 0 => exchange.dpc = "raised" /\ exchange.calls = exchange.failed

\* C19 (amended): ... the second time when, and only when, the first answer cut
\* to max_actions_per_step is structurally empty ...
C19_RetryAfterCutEmpty ==
    /\ exchange.calls <= 2
    /\ exchange.calls = 2
         => StructurallyEmpty(Cut(exchange.first.action, settings.max_actions_per_step))
    /\ (/\ exchange.dpc = "returned"
        /\ StructurallyEmpty(Cut(exchange.first.action, settings.max_actions_per_step)))
         => exchange.calls = 2
    /\ exchange.failed # 0 => exchange.dpc = "raised" /\ exchange.calls = exchange.failed

C19_Witness ==
    /\ exchange.dpc = "raised" /\ exchange.calls = 2 /\ exchange.failed = 2
    /\ exchange.first.action = <<"empty", "done_true">>
    /\ settings.max_actions_per_step = 1

\* C20: no shortened URL is left in the decision a decide returns: what the
\* oracle echoes of the shortened URLs it was shown, in the first call or in
\* the retry, comes back as the original URL.
C20_UrlsRestored ==
    exchange.dpc = "returned" =>
        \A u \in exchange.model_output.urls : u.short_of = 0

\* C25: when tools.act raises during a step, no later action of the batch is
\* invoked, the step ends with exactly one ActionResult carrying the error,
\* recorded in the history, and the consecutive-failure counter is one more
\* than when the step began.
C25_InvokerRaises ==
    (StepEnded /\ cur.raised = "Exception" /\ cur.raised_in = "act") =>
        /\ ~cur.acted
        /\ state.last_result = <<ErrorResult("error")>>
        /\ state.consecutive_failures = cur.cf0 + 1
        /\ Len(history) = cur.h0 + 1
        /\ history[Len(history)].result = <<ErrorResult("error")>>

\* C26: during run() the history only grows: a step of the program leaves it
\* as it is or appends one record at its end; no record already appended is
\* removed or changed.
C26_Step ==
    \/ history' = history
    \/ /\ Len(history') = Len(history) + 1
       /\ SubSeq(history', 1, Len(history)) = history

C26_AppendOnly == [][C26_Step]_vars

C26_Witness ==
    /\ pc = "returned" /\ Len(history) = 3
    /\ history[1].metadata = 0 /\ history[2].metadata = 1 /\ history[3].metadata = 2

\* The results of a batch: those of the actions executed, then one synthetic
\* result with the given message
PageChanged == ActionResult(FALSE, None, None, "Page changed after action")

SomethingNew == ActionResult(FALSE, None, None, "Something new appeared")

StoppedWith(synthetic, k) ==
    /\ batch.bpc = "return"
    /\ batch.invoked = [j \in 1..k |-> j - 1]
    /\ Len(batch.results) = k + 1
    /\ batch.results[k + 1] = synthetic
    /\ \A j \in 1..k : batch.results[j] \notin {PageChanged, SomethingNew}

\* The batch re-observed the page before the action at position k (from 0)
\* and read, at that action's index, another element than the cached snapshot
\* holds there (or an element where there was none, or none where there was one)
TargetChangedAt(k) ==
    /\ batch.observed_at = k
    /\ batch.target_changed

\* C21: when the element at the index of an index-based action at position
\* i > 0 differs, in the fresh observation, from the element at that index in
\* the snapshot cached before the batch (one of them absent included), action
\* i and the later actions are not invoked and the batch returns the results
\* of the actions executed followed by exactly one "page changed" result.
C21_PageChangedStops ==
    \A k \in 1..MaxBatch : TargetChangedAt(k) => StoppedWith(PageChanged, k)

C21_Witness ==
    /\ TargetChangedAt(1) /\ Len(batch.actions) = 3
    /\ batch.cached_selector_map[batch.actions[2].index] # NoElement
    /\ batch.selector_map[batch.actions[2].index] = NoElement

\* The page before the second action holds an element the snapshot before
\* the batch does not
NewAfterFirst ==
    /\ batch.iterations >= 2
    /\ batch.new_after_first

\* C22: when, after action 1, the element map holds an element absent at the
\* start of the batch and check_for_new_elements is set, the batch returns
\* action 1's result and exactly one "something new appeared" result without
\* invoking action 2, whatever action 2 is; with check_for_new_elements unset
\* no batch returns a "something new appeared" result.
C22_NewElementsStop ==
    /\ (NewAfterFirst /\ batch.check_for_new_elements) => StoppedWith(SomethingNew, 1)
    /\ ~batch.check_for_new_elements =>
           \A j \in 1..Len(batch.results) : batch.results[j] # SomethingNew

\* C22 amended: the same, for a second action that names an element by index
\* and whose element at that index is the one of the snapshot.
C22_NewElementsStopIndexed ==
    /\ (/\ NewAfterFirst /\ batch.check_for_new_elements
        /\ batch.actions[2].index # NoIndex
        /\ batch.target_after_first)
           => StoppedWith(SomethingNew, 1)
    /\ ~batch.check_for_new_elements =>
           \A j \in 1..Len(batch.results) : batch.results[j] # SomethingNew

C22_Witness ==
    /\ NewAfterFirst /\ batch.check_for_new_elements /\ Len(batch.actions) = 3
    /\ StoppedWith(SomethingNew, 1)

C22_WitnessDisabled ==
    /\ NewAfterFirst /\ ~batch.check_for_new_elements
    /\ batch.actions[2].index # NoIndex
    /\ batch.bpc = "return" /\ batch.invoked = <<0, 1>>

\* C23: a done action at a position i > 0 is never handed to tools.act: the
\* batch returns before it, with the results of the i actions before it and
\* none for it or for a later action.
C23_DoneNotAlone ==
    \A k \in 1..MaxBatch - 1 :
        (k + 1 <= Len(batch.actions) /\ IsDoneAction(batch.actions[k + 1].kind)) =>
            /\ \A j \in 1..Len(batch.invoked) : batch.invoked[j] < k
            /\ Len(batch.results) <= k
            /\ batch.iterations > k =>
                   /\ batch.bpc = "return"
                   /\ batch.invoked = [j \in 1..k |-> j - 1]
                   /\ Len(batch.results) = k

C23_Witness ==
    /\ Len(batch.actions) = 3 /\ IsDoneAction(batch.actions[2].kind)
    /\ batch.iterations = 2 /\ batch.bpc = "return" /\ Len(batch.results) = 1

\* C24: the actions handed to tools.act are the first ones of the list, in
\* list order, each once; the batch goes on to no further action after a
\* result that is terminal or carries an error; in the results only the last
\* can be terminal or carry an error.
C24_PrefixInOrder ==
    /\ batch.invoked = [j \in 1..Len(batch.invoked) |-> j - 1]
    /\ Len(batch.invoked) <= Len(batch.actions)
    /\ \A j \in 1..Len(batch.results) - 1 :
           ~batch.results[j].is_done /\ batch.results[j].error = None
    /\ (/\ batch.results # <<>>
        /\ LET last == batch.results[Len(batch.results)]
           IN last.is_done \/ last.error # None) => batch.bpc = "return"

C24_Witness ==
    /\ Len(batch.actions) = 3 /\ batch.bpc = "return" /\ batch.invoked = <<0, 1>>
    /\ Len(batch.results) = 2 /\ batch.results[2].error # None

\* C27: replay leaves every item of the history it was handed as it was,
\* the indices of the recorded actions included.
C27_HistoryUntouched == replay.history = replay.original

\* The hash recorded for action j of the item last attempted is known
Known(j) == replay.original[replay.attempted].interacted_element[j] # NoElement

\* ... and no element of the page has it
Unmatched(j) ==
    /\ Known(j)
    /\ \A k \in Indices :
          replay.selector_map[k] # replay.original[replay.attempted].interacted_element[j]

AttemptedActions ==
    IF replay.attempted = 0 THEN {}
    ELSE DOMAIN replay.original[replay.attempted].action

\* C28: a replayed step with an action whose recorded element is known while
\* no element of the page has its hash (a page without elements included) is
\* attempted exactly once and the replay raises.
C28_UnmatchedRaisesAtOnce ==
    (\E j \in AttemptedActions : Unmatched(j)) =>
        replay.attempts = 1 /\ replay.rpc = "raised"

\* The max_retries-th call of _execute_history_step for an item has just raised
Exhausted ==
    /\ replay.attempted # 0 /\ replay.raised
    /\ replay.attempts = replay.max_retries
    /\ replay.rpc = "raised" \/ replay.i = replay.attempted + 1

\* C29: when the last allowed attempt of a replayed step has failed: with
\* skip_failures one error result is recorded for the step and the replay
\* goes on to the next item; without skip_failures the replay raises.
C29_ExhaustedRetries ==
    Exhausted =>
        IF replay.skip_failures
        THEN /\ replay.rpc # "raised"
             /\ Len(replay.results) = replay.len0 + 1
             /\ replay.results[Len(replay.results)].error # None
        ELSE replay.rpc = "raised"

C34_Step ==
    /\ (pc' = "prepare" /\ pc # "prepare") => pc = "on_step_start"
    /\ pc = "on_step_start" => pc' \in {"on_step_start", "prepare"}
    /\ (pc \in StepPcs /\ pc' \notin StepPcs) => pc' = "on_step_end"
    /\ pc = "on_step_end" => pc' \in {"on_step_end", "loop_top", "returned"}
    /\ (pc' = "on_step_end" /\ pc # "on_step_end") => pc \in StepPcs
    /\ (pc \in {"loop_top", "pause_woken"} /\ pc' = "returned") => cur' = cur

C34_HooksAroundStep == [][C34_Step]_vars

\* The step that has just ended appended a record
StepRecorded == StepEnded /\ Len(history) = cur.h0 + 1

\* C36: when the stop or pause test that follows the retrieval of the
\* decision raises, the record appended for that step does not carry the
\* decision just retrieved.
C36_InterruptedDecisionNotRecorded ==
    (StepRecorded /\ cur.raised = "InterruptedError" /\ cur.raised_in = "decide") =>
        history[Len(history)].model_output # state.last_model_output

\* The step assigned a decision to last_model_output
DecisionProduced ==
    cur.oracle_calls > 0 /\ ~(cur.raised_in = "decide" /\ cur.raised = "Exception")

\* C37: the record a step appends carries the decision and the results of
\* that step only: no decision when the step retrieved none, and the results
\* of its own multi_act or of its own error handler.
C37_OwnDecisionAndResults ==
    StepRecorded =>
        /\ ~DecisionProduced => history[Len(history)].model_output = NoOutput
        /\ cur.acted \/ cur.raised # None
        /\ cur.acted => history[Len(history)].result = cur.yielded

\* C38: step() is entered only while the paused flag is unset.
C38_Step == (pc = "on_step_start" /\ pc' = "prepare") => ~state.paused

C38_NoStepWhilePaused == [][C38_Step]_vars

\* C39: every record of the history holds at least one ActionResult.
C39_RecordsHoldResults == \A k \in 1..Len(history) : Len(history[k].result) >= 1

C39_Witness ==
    /\ pc = "returned" /\ Len(history) = 3
    /\ history[1].metadata = 0
    /\ history[2].result = <<ErrorResult("The agent was interrupted mid-step")>>
    /\ Synthetic(history[3])
    /\ timeouts > 0

\* The replay has left the item before replay.i, an item with a decision
LeftItemWithDecision ==
    /\ replay.rpc # "idle" /\ replay.i > 1
    /\ replay.original[replay.i - 1].has_output
    /\ replay.original[replay.i - 1].action # <<>>

\* C35: for every max_retries >= 0, a replayed item with a decision is
\* attempted at least once, and an item whose attempts all raise is given up
\* only after max_retries retries, that is max_retries + 1 attempts.
C35_AttemptedAndRetried ==
    /\ LeftItemWithDecision =>
           replay.attempted = replay.i - 1 /\ replay.attempts >= 1
    /\ (/\ replay.attempted # 0 /\ replay.raised
        /\ replay.rpc = "raised" \/ replay.i > replay.attempted) =>
           replay.attempts = replay.max_retries + 1

\* Every ActionResult of a list satisfies success => is_done
SuccessRequiresDone(rs) ==
    \A k \in 1..Len(rs) : rs[k].success = "true" => rs[k].is_done = TRUE

\* C31: an ActionResult with success true and is_done not true is rejected at
\* construction, so every ActionResult in state.last_result and in every
\* history record satisfies success => is_done.
C31_SuccessRequiresDone ==
    /\ ~validate_success_requires_done(ActionResult(FALSE, "true", None, None))
    /\ SuccessRequiresDone(state.last_result)
    /\ SuccessRequiresDone(results)
    /\ \A k \in 1..Len(history) : SuccessRequiresDone(history[k].result)

\* A step whose action built ActionResult(is_done=True, success=True) has
\* been recorded, after a step whose action raised
C31_Witness ==
    /\ StepRecorded /\ cur.acted /\ Len(history) = 2
    /\ history[1].result[1].error # None
    /\ history[2].result[1].success = "true"
    /\ history[2].result[1].is_done = TRUE
    /\ state.last_result = history[2].result

\* C40: after any sequence of add calls the rectangles of a RectUnionPure
\* are pairwise disjoint (no two share a unit square), and add leaves them
\* as they were and returns False exactly when its rectangle was covered.
C40_DisjointAndExact ==
    /\ \A j, k \in 1..Len(rect_union.rects) :
           j # k => Squares(rect_union.rects[j]) \cap Squares(rect_union.rects[k]) = {}
    /\ rect_union.adds > 0 =>
           /\ rect_union.covered <=> ~rect_union.grew
           /\ rect_union.covered <=> rect_union.same

\* The third add is refused for a rectangle that no single stored rectangle
\* contains, after an add that was cut into pieces
C40_Witness ==
    /\ rect_union.adds = 3 /\ ~rect_union.grew /\ rect_union.same
    /\ Len(rect_union.rects) >= 3
    /\ \A k \in 1..Len(rect_union.rects) :
           ~Rect_contains(rect_union.rects[k], rect_union.r)

\* C32: a history saved to a file and loaded from it comes back as it was:
\* the same records in the same order, each with the same decision, results,
\* state and metadata.
C32_RoundTrip ==
    (saved.origin = "object" /\ saved.fpc \in {"loaded", "failed"}) =>
        saved.fpc = "loaded" /\ saved.loaded = saved.history

\* The digits of a formatted identifier read back as a number
RECURSIVE ParseDigits(_)
ParseDigits(digits) ==
    IF digits = <<>> THEN 0
    ELSE 10 * ParseDigits(SubSeq(digits, 1, Len(digits) - 1)) + digits[Len(digits)]

\* A tab as migrated: it has the current identifier fields and not the legacy
\* ones, they hold the legacy values, every other value is kept, and a tab
\* already in the current format is as it was
TabUpgraded(old, new) ==
    /\ "tab_id" \in DOMAIN new
    /\ DOMAIN new \cap {"page_id", "parent_page_id"} = {}
    /\ "page_id" \in DOMAIN old =>
           Len(new["tab_id"]) = 4 /\ ParseDigits(new["tab_id"]) = old["page_id"]
    /\ "parent_page_id" \in DOMAIN old =>
           /\ "parent_tab_id" \in DOMAIN new
           /\ old["parent_page_id"] = Nothing => new["parent_tab_id"] = Nothing
           /\ old["parent_page_id"] # Nothing =>
                  /\ new["parent_tab_id"] # Nothing
                  /\ ParseDigits(new["parent_tab_id"][1]) = old["parent_page_id"][1]
    /\ \A k \in DOMAIN old \ {"page_id", "parent_page_id"} :
           k \in DOMAIN new /\ new[k] = old[k]
    /\ DOMAIN old \cap {"page_id", "parent_page_id"} = {} => new = old

\* An element as migrated: it has every required field, x_path holds the
\* legacy xpath, every other value is kept, and an element already in the
\* current format is as it was
ElementUpgraded(old, new) ==
    /\ old = Nothing <=> new = Nothing
    /\ old # Nothing =>
           /\ required_fields \subseteq DOMAIN new[1]
           /\ ("xpath" \in DOMAIN old[1] /\ "x_path" \notin DOMAIN old[1]) =>
                  new[1]["x_path"] = old[1]["xpath"]
           /\ \A k \in DOMAIN old[1] \ {"xpath"} :
                  k \in DOMAIN new[1] /\ new[1][k] = old[1][k]
           /\ required_fields \subseteq DOMAIN old[1] => new[1] = old[1]

====
